---- MODULE Spec2Model ----
(***************************************************************************)
(* PearSync: replicated multi-writer log, membership and View              *)
(* (src/lib/autobase.js) and the file-sync engine built on it              *)
(* (src/lib/sync-v2.js).                                                   *)
(*                                                                         *)
(* Writer keys are small integers; their numeric order stands for the      *)
(* lexicographic order of the 32-byte keys.  Every node owns exactly one   *)
(* writer key, so a node and its local writer key are the same value.      *)
(***************************************************************************)
EXTENDS Integers, Sequences, FiniteSets, TLC

\* ------------------------------------------------------------------ bounds
MaxBlocks == 3
MaxSplit == 2
MaxPushBlocks == 4
MaxEdits == 3
MaxReqs == 3
MaxSyncEdits == 2
MaxEngines == 2
MaxLines == 2
MaxBytes == 4
MaxStops == 2
MaxBatch == 2
MaxLength == 4

\* --------------------------------------------------------------- universe
Nodes == {1, 2}
Boot == 2
\* the workspace paths, in the key order of the Hyperbee; the last one is a name
\* of DEFAULT_IGNORES
PathOrder == <<"a.txt", "b.txt", "node_modules">>
Paths == {PathOrder[i] : i \in 1..Len(PathOrder)}
Contents == {"x", "y"}
Absent == [absent |-> TRUE]

\* the states of a local file other than absent: content and mtimeMs
Versions == {[content |-> "x", mtime |-> 0], [content |-> "y", mtime |-> 2000]}

\* sha256 of a file content (sync-v2.js:501): a collision-free digest
sha256(c) == <<"sha256", c>>

\* content.toString('base64') (sync-v2.js:511) and Buffer.from(s, 'base64')
\* (sync-v2.js:552)
base64(c) == <<"base64", c>>
unbase64(s) == s[2]

\* FileMeta written by SyncEngine._pushFile
FileMeta(c, m, k) ==
  [content |-> base64(c), mtime |-> m, hash |-> sha256(c), writerKey |-> k]

\* ------------------------------------------------------------- operations
PutOp(p, v) == [type |-> "put", key |-> p, value |-> v, writerKey |-> 0]
DelOp(p) == [type |-> "del", key |-> p, value |-> Absent, writerKey |-> 0]
AddWriterOp(k) == [type |-> "add-writer", key |-> "", value |-> Absent, writerKey |-> k]
RemoveWriterOp(k) == [type |-> "remove-writer", key |-> "", value |-> Absent, writerKey |-> k]

VARIABLES
  log,            \* log[w]: writer w's append-only sequence of blocks
  have,           \* have[n][w]: length of the prefix of w's log node n holds
  applied,        \* applied[n]: block ids <<w, i>> in the order n's linearizer applied them
  view,           \* view[n][p]: the View (Hyperbee) of node n
  writers,        \* writers[n]: the Writer Set of node n's linearizer
  activeWriters,  \* activeWriters[n]: keys of base.activeWriters.map at node n
  conn,           \* conn: the open peer connections, as sets {n, m}
  msgs,           \* msgs: writer-key messages in flight, <<from, to>>
  receivedKeys,   \* receivedKeys[n][m]: keys n received on its connection with m
  disk,           \* disk[n][p]: the file p of node n's local directory, or Absent
  pushPc,         \* pushPc[n]: where node n's syncToRemote is ("idle", "deleting")
  delq,           \* delq[n]: the entries of autobase.list() the deletion loop has left
  edits,          \* number of local filesystem changes made so far
  cycle,          \* cycle[n]: the phases the running Workspace._fullSync of n has done
  running,        \* running[n]: invocations of the debounced worker of n in flight
  waiting,        \* waiting[n]: the debounced function of n has a follow-up pending
  reqs,           \* reqs[n]: calls of the debounced function since the worker started
  started,        \* started[n]: worker invocations the debounced function started
  eng,            \* eng[n]: what the SyncEngine of n emitted and returned, its poll, its close
  dmn,            \* dmn: the Daemon: its workspace map, flags, connection and calls in flight
  bee             \* bee: a View under _applyBatch: its entries, its core length, the last batch

vars == <<log, have, applied, view, writers, activeWriters, conn, msgs, receivedKeys,
          disk, pushPc, delq, edits, cycle, running, waiting, reqs, started, eng, dmn, bee>>
base == <<log, have, applied, view, writers, activeWriters>>
net == <<conn, msgs, receivedKeys>>
deb == <<running, waiting, reqs, started>>
local == <<disk, pushPc, delq, edits, cycle, deb, eng, dmn, bee>>

\* -------------------------------------------------------------- the View
EmptyView == [p \in Paths |-> Absent]

\* base.writable: the local writer key is in the Writer Set
writable(n) == n \in writers[n]

\* the block <<w, i>> of logs lg as the apply function sees it (node.value, node.writer.key)
NodeOf(lg, id) == [writer |-> id[1], value |-> lg[id[1]][id[2]].op]

\* ---------------------------------------------------------- _applyBatch
\* a put that leaves an existing entry alone (first writer wins)
ApplyOpKeepFirst(st, node) ==
  LET op == node.value IN
  IF op.type = "put" THEN
    IF st.view[op.key] = Absent
      THEN [st EXCEPT !.view = [st.view EXCEPT ![op.key] = op.value]] ELSE st
  ELSE IF op.type = "del" THEN
    [st EXCEPT !.view = [st.view EXCEPT ![op.key] = Absent]]
  ELSE IF op.type = "add-writer" THEN
    [st EXCEPT !.writers = st.writers \cup {op.writerKey},
               !.aw = st.aw \cup {op.writerKey}]
  ELSE IF op.type = "remove-writer" /\ node.writer = op.writerKey THEN
    [st EXCEPT !.writers = st.writers \ {op.writerKey},
               !.aw = st.aw \ {op.writerKey}]
  ELSE st

\* membership changes with the author test of remove-writer replaced by test
MembershipWith(st, node, test) ==
  LET op == node.value IN
  IF op.type = "put" THEN
    [st EXCEPT !.view = [st.view EXCEPT ![op.key] = op.value]]
  ELSE IF op.type = "del" THEN
    [st EXCEPT !.view = [st.view EXCEPT ![op.key] = Absent]]
  ELSE IF op.type = "add-writer" THEN
    [st EXCEPT !.writers = st.writers \cup {op.writerKey},
               !.aw = st.aw \cup {op.writerKey}]
  ELSE IF op.type = "remove-writer" /\ test THEN
    [st EXCEPT !.writers = st.writers \ {op.writerKey},
               !.aw = st.aw \ {op.writerKey}]
  ELSE st

\* remove-writer never removes (the key comparison never succeeds)
ApplyOpNoRemove(st, node) == MembershipWith(st, node, FALSE)

\* remove-writer removes whatever its author (no author test)
ApplyOpRemoveAny(st, node) == MembershipWith(st, node, TRUE)

\* remove-writer with the author test inverted
ApplyOpRemoveOther(st, node) ==
  MembershipWith(st, node, node.writer # node.value.writerKey)

\* one iteration of the loop of PearSyncAutobase._applyBatch
ApplyOp(st, node) ==
  LET op == node.value IN
  IF op.type = "put" THEN
    [st EXCEPT !.view = [st.view EXCEPT ![op.key] = op.value]]
  ELSE IF op.type = "del" THEN
    [st EXCEPT !.view = [st.view EXCEPT ![op.key] = Absent]]
  ELSE IF op.type = "add-writer" THEN
    [st EXCEPT !.writers = st.writers \cup {op.writerKey},
               !.aw = st.aw \cup {op.writerKey}]
  ELSE IF op.type = "remove-writer" THEN
    IF node.writer = op.writerKey
      THEN [st EXCEPT !.writers = st.writers \ {op.writerKey},
                      !.aw = st.aw \ {op.writerKey}]
      ELSE st
  ELSE st

\* the one element of a singleton set; {e(x) : x \in {v}} names the value v
\* once, where a LET would name an expression
Only(S) == CHOOSE x \in S : TRUE

\* the loop over the batch, in batch order
RECURSIVE FoldOps(_, _)
FoldOps(st, batch) ==
  IF batch = <<>> THEN st
  ELSE Only({FoldOps(s, t) : s \in {ApplyOp(st, Head(batch))}, t \in {Tail(batch)}})

IsDel(node) == node.value.type = "del"
NotDel(node) == node.value.type # "del"

\* the deletions of a batch take effect before its other writes
ApplyBatchDelsFirst(st, batch) ==
  FoldOps(st, SelectSeq(batch, IsDel) \o SelectSeq(batch, NotDel))

\* PearSyncAutobase._applyBatch(batch, view, base)
ApplyBatch(st, batch) == FoldOps(st, batch)

\* the Writer Set and the View of a freshly opened base: only the bootstrap key
InitState(aw) == [view |-> EmptyView, writers |-> {Boot}, aw |-> aw]

\* ------------------------------------------------------------ Linearizer
\* number of blocks of each writer in a linearized sequence of block ids
LinCount(ids) == [w \in Nodes |-> Cardinality({i \in 1..Len(ids) : ids[i][1] = w})]

Min(S) == CHOOSE x \in S : \A y \in S : x <= y

\* writers whose next block is held (h), admitted (st.writers) and has all its
\* causal dependencies linearized (clock <= idx)
Ready(lg, h, idx, st) ==
  {w \in st.writers : /\ idx[w] < h[w]
                      /\ \A u \in Nodes : lg[w][idx[w] + 1].clock[u] <= idx[u]}

\* deterministic total order of the held blocks: repeatedly take the ready block
\* of the smallest writer key
RECURSIVE LinFrom(_, _, _, _, _)
LinFrom(lg, h, idx, st, acc) ==
  IF Ready(lg, h, idx, st) = {} THEN acc
  ELSE Only({Only({LinFrom(lg, h, idx1, st1, acc1) :
                     idx1 \in {[idx EXCEPT ![w] = idx[w] + 1]},
                     st1 \in {ApplyOp(st, NodeOf(lg, <<w, idx[w] + 1>>))},
                     acc1 \in {Append(acc, <<w, idx[w] + 1>>)}}) :
               w \in {Min(Ready(lg, h, idx, st))}})

Linearize(lg, h) == LinFrom(lg, h, [w \in Nodes |-> 0], InitState({}), <<>>)

IsPrefix(s, t) == Len(s) <= Len(t) /\ SubSeq(t, 1, Len(s)) = s

Nodes_(lg, ids) == [i \in 1..Len(ids) |-> NodeOf(lg, ids[i])]

\* the state the base of node n keeps: what its linearizer applied, its View,
\* its Writer Set and its activeWriters map
NS(n) == [applied |-> applied[n], view |-> view[n],
          writers |-> writers[n], aw |-> activeWriters[n]]

\* base.update() on node state ns with logs lg and held prefixes h: the linearizer
\* hands the apply function the not yet applied blocks in two batches split at k;
\* when the order of already applied blocks changed, the View is truncated and
\* the whole sequence is applied again
UpdatedTo(ns, lg, lin, k) ==
  LET keep == IsPrefix(ns.applied, lin)
      st0 == IF keep THEN [view |-> ns.view, writers |-> ns.writers, aw |-> ns.aw]
                     ELSE InitState(ns.aw)
      todo == IF keep THEN SubSeq(lin, Len(ns.applied) + 1, Len(lin)) ELSE lin
      cut == IF k <= Len(todo) THEN k ELSE Len(todo)
  IN Only({Only({[applied |-> lin, view |-> st2.view, writers |-> st2.writers,
                  aw |-> st2.aw] :
                   st2 \in {ApplyBatch(st1, Nodes_(lg, SubSeq(todo, cut + 1, Len(todo))))}}) :
             st1 \in {ApplyBatch(st0, Nodes_(lg, SubSeq(todo, 1, cut)))}})

Updated(ns, lg, h, k) == Only({UpdatedTo(ns, lg, lin, k) : lin \in {Linearize(lg, h)}})

\* base.append(op) by node n: the append waits until apply has caught up with the
\* held blocks, extends the local log with a block that references everything
\* linearized so far, and applies it
Appended(n, ns, lg, h, op) ==
  Only({Only({[ns |-> Updated(u0, lg1, h1, 0), lg |-> lg1, h |-> h1] :
                lg1 \in {[lg EXCEPT ![n] =
                            Append(@, [op |-> op, clock |-> LinCount(u0.applied)])]},
                h1 \in {[h EXCEPT ![n] = Len(lg[n]) + 1]}}) :
          u0 \in {Updated(ns, lg, h, 0)}})

SetNS(n, ns) ==
  /\ applied' = [applied EXCEPT ![n] = ns.applied]
  /\ view' = [view EXCEPT ![n] = ns.view]
  /\ writers' = [writers EXCEPT ![n] = ns.writers]
  /\ activeWriters' = [activeWriters EXCEPT ![n] = ns.aw]

SetWorld(n, w) ==
  /\ log' = w.lg
  /\ have' = [have EXCEPT ![n] = w.h]
  /\ SetNS(n, w.ns)

Splits == 0..MaxSplit

RECURSIVE SumLen(_, _)
SumLen(lg, S) ==
  IF S = {} THEN 0
  ELSE LET w == CHOOSE x \in S : TRUE IN Len(lg[w]) + SumLen(lg, S \ {w})

\* ------------------------------------------------------------- SyncEngine
\* options.syncDeletes !== false, and the .env of DEFAULT_IGNORES
syncDeletes == TRUE
IgnorePatterns == {"node_modules", ".git", ".DS_Store", "Thumbs.db", ".env",
                   ".env.local", ".pearsyncignore"}
MtimeTolerance == 1000

\* the base of node n with the logs, as a value the push routines transform
World(n) == [ns |-> NS(n), lg |-> log, h |-> have[n]]

\* a matcher that lets every path through
shouldIgnoreNothing(p) == FALSE

\* SyncEngine.shouldIgnore(filePath), for paths of one component
shouldIgnore(p) == p \in IgnorePatterns

\* the paths no pattern matches
Synced == {p \in Paths : ~shouldIgnore(p)}

\* the paths that carry a name of the ignore list
Ignored == Paths \cap IgnorePatterns

Abs(x) == IF x < 0 THEN 0 - x ELSE x

\* a change test that compares the hashes only
needsSyncHashOnly(f, e) ==
  IF f = Absent THEN TRUE
  ELSE IF e = Absent THEN TRUE
  ELSE sha256(f.content) # e.hash

\* a change test that only asks whether the View has an entry
needsSyncMissingOnly(f, e) ==
  IF f = Absent THEN TRUE
  ELSE IF e = Absent THEN TRUE
  ELSE FALSE

\* SyncEngine._needsSync(relativePath): f the local file, e the View entry
needsSync(f, e) ==
  IF f = Absent THEN TRUE
  ELSE IF e = Absent THEN TRUE
  ELSE IF Abs(f.mtime - e.mtime) > MtimeTolerance /\ f.mtime > e.mtime THEN TRUE
  ELSE sha256(f.content) # e.hash

\* SyncEngine._pushFile(relativePath)
pushFile(n, w, p, f) ==
  Appended(n, w.ns, w.lg, w.h, PutOp(p, FileMeta(f.content, f.mtime, n)))

\* SyncEngine._pushDelete(relativePath)
pushDelete(n, w, p) == Appended(n, w.ns, w.lg, w.h, DelOp(p))

\* SyncEngine._walkDir(dir): the files of directory d, in directory order
walkDir(d, order) == SelectSeq(order, LAMBDA p : d[p] # Absent /\ ~shouldIgnore(p))

\* the orders in which readdir may list the directory (an ignored name is
\* skipped wherever it stands, so it is listed last)
Orders ==
  {o \in [1..Cardinality(Paths) -> Paths] :
     /\ \A i \in DOMAIN o, j \in DOMAIN o : i # j => o[i] # o[j]
     /\ \A i \in DOMAIN o, j \in DOMAIN o :
          (i < j /\ shouldIgnore(o[i])) => shouldIgnore(o[j])}

\* a file whose mode denies reading and writing: fs.stat succeeds on it,
\* fs.readFile and fs.writeFile fail with EACCES
Locked(f) == f # Absent /\ "locked" \in DOMAIN f

\* a put loop that a failing file ends
RECURSIVE PutLoopAbort(_, _, _, _)
PutLoopAbort(n, w, d, files) ==
  IF files = <<>> THEN w
  ELSE IF ~shouldIgnore(Head(files)) /\ Locked(d[Head(files)]) THEN w
  ELSE Only({PutLoopAbort(n, w1, d, t) :
               w1 \in {IF ~shouldIgnore(Head(files))
                          /\ needsSync(d[Head(files)], w.ns.view[Head(files)])
                         THEN pushFile(n, w, Head(files), d[Head(files)])
                         ELSE w},
               t \in {Tail(files)}})

\* the first loop of syncToRemote: push every file that needs it; the readFile
\* of _needsSync or of _pushFile throws on a locked file, the catch of the loop
\* body emits the error and the loop goes on
RECURSIVE PutLoop(_, _, _, _)
PutLoop(n, w, d, files) ==
  IF files = <<>> THEN w
  ELSE Only({PutLoop(n, w1, d, t) :
               w1 \in {IF ~shouldIgnore(Head(files))
                          /\ ~Locked(d[Head(files)])
                          /\ needsSync(d[Head(files)], w.ns.view[Head(files)])
                         THEN pushFile(n, w, Head(files), d[Head(files)])
                         ELSE w},
               t \in {Tail(files)}})

HasValue(e) == e.value # Absent

\* PearSyncAutobase.list(): the entries of the View in key order
list(v) ==
  SelectSeq([i \in 1..Len(PathOrder) |-> [key |-> PathOrder[i], value |-> v[PathOrder[i]]]],
            HasValue)

\* one iteration of the deletion loop of syncToRemote on list() entry e
DelStep(n, w, d, e) ==
  IF e.value # Absent /\ e.value.writerKey = n /\ d[e.key] = Absent
    THEN pushDelete(n, w, e.key)
    ELSE w

RECURSIVE DelLoop(_, _, _, _)
DelLoop(n, w, d, entries) ==
  IF entries = <<>> THEN w
  ELSE Only({DelLoop(n, w1, d, t) :
               w1 \in {DelStep(n, w, d, Head(entries))}, t \in {Tail(entries)}})

\* SyncEngine.syncToRemote() of a writable engine, run to its end with nothing
\* else happening: the world it leaves
syncToRemote(n, w, d, order) ==
  Only({IF syncDeletes THEN DelLoop(n, w1, d, list(w1.ns.view)) ELSE w1 :
          w1 \in {PutLoop(n, w, d, walkDir(d, order))}})

\* the versions of a file the user of a pulling engine saves: two contents, and
\* modification times 1000 ms and more apart
SyncVersions ==
  {[content |-> "x", mtime |-> 1000], [content |-> "y", mtime |-> 2000],
   [content |-> "x", mtime |-> 4000]}

\* the time of an fs.writeFile whose mtime is not restored: later than every
\* mtime a user saved
Now == 9000

\* a pull that creates the file and restores its mtime but writes no content
pullFileEmpty(e) ==
  [content |-> "", mtime |-> IF e.mtime # 0 THEN e.mtime ELSE Now]

\* SyncEngine._pullFile(relativePath): the file written from View entry e
pullFile(e) ==
  [content |-> unbase64(e.content), mtime |-> IF e.mtime # 0 THEN e.mtime ELSE Now]

\* a pull test that takes an entry 1000 ms or more later than the local file
needsPullAtLeast(f, e) ==
  IF f = Absent THEN TRUE
  ELSE IF e # Absent /\ e.mtime # 0 THEN e.mtime >= f.mtime + MtimeTolerance
  ELSE FALSE

\* the needsPull of the pull loop of syncToLocal: f the local file, e the value
\* of the list() entry
needsPull(f, e) ==
  IF f = Absent THEN TRUE
  ELSE IF e # Absent /\ e.mtime # 0 THEN e.mtime > f.mtime + MtimeTolerance
  ELSE FALSE

\* the pull loop of syncToLocal over the list() entries, on View v and directory
\* d; the writeFile of _pullFile throws on a locked file, the catch of the loop
\* body emits the error and the loop goes on
RECURSIVE PullLoop(_, _, _)
PullLoop(v, d, entries) ==
  IF entries = <<>> THEN d
  ELSE Only({PullLoop(v, d1, t) :
               d1 \in {IF /\ ~shouldIgnore(Head(entries).key)
                          /\ needsPull(d[Head(entries).key], Head(entries).value)
                          /\ v[Head(entries).key] # Absent
                          /\ ~Locked(d[Head(entries).key])
                         THEN [d EXCEPT ![Head(entries).key] = pullFile(v[Head(entries).key])]
                         ELSE d},
               t \in {Tail(entries)}})

\* a pull whose deletion loop unlinks nothing
LocalDeletesNone(d, entries) == d

\* the local deletion loop of syncToLocal: unlink the files list() has no key for
LocalDeletes(d, entries) ==
  [p \in Paths |->
     IF /\ d[p] # Absent /\ ~shouldIgnore(p)
        /\ p \notin {entries[i].key : i \in 1..Len(entries)}
       THEN Absent ELSE d[p]]

\* SyncEngine.syncToLocal() after its base.update(): the directory it leaves
syncToLocal(v, d) ==
  Only({IF syncDeletes THEN LocalDeletes(d1, list(v)) ELSE d1 :
          d1 \in {PullLoop(v, d, list(v))}})

\* -------------------------------------------------------------- Workspace
\* the names Workspace._shouldIgnore skips
WsIgnored == {"node_modules", ".git", ".DS_Store", "Thumbs.db", ".pearsyncignore"}
wsShouldIgnore(p) == p \in WsIgnored

\* PearSyncAutobase.putBlob(content) and getBlob(descriptor): the descriptor
\* names the stored content
putBlob(c) == <<"blob", c>>
getBlob(id) == id[2]

\* the value of the put op of SyncEngine.pushFile (sync-engine.js)
WsMeta(c, m) == [blobId |-> putBlob(c), mtime |-> m, hash |-> sha256(c)]

\* SyncEngine.needsSync(relativePath) of sync-engine.js
engineNeedsSync(f, e) ==
  IF f = Absent THEN TRUE
  ELSE IF e = Absent THEN TRUE
  ELSE IF Abs(f.mtime - e.mtime) > MtimeTolerance THEN TRUE
  ELSE sha256(f.content) # e.hash

\* SyncEngine.pushFile(relativePath) of sync-engine.js; the append of a node
\* that is not writable throws and the caller goes on with the next file
enginePushFile(n, w, p, f) ==
  IF n \in w.ns.writers
    THEN Appended(n, w.ns, w.lg, w.h, PutOp(p, WsMeta(f.content, f.mtime)))
    ELSE w

\* SyncEngine.pullFile(relativePath) of sync-engine.js
enginePullFile(e) ==
  [content |-> getBlob(e.blobId), mtime |-> IF e.mtime # 0 THEN e.mtime ELSE Now]

\* Workspace._pullAll(): every entry that is missing locally or whose mtime is
\* more than 1000 ms away from the local one is written
RECURSIVE pullAll(_, _, _)
pullAll(v, d, entries) ==
  IF entries = <<>> THEN d
  ELSE Only({pullAll(v, d1, t) :
               d1 \in {IF /\ ~wsShouldIgnore(Head(entries).key)
                          /\ \/ d[Head(entries).key] = Absent
                             \/ /\ Head(entries).value.mtime # 0
                                /\ Abs(d[Head(entries).key].mtime
                                       - Head(entries).value.mtime) > MtimeTolerance
                         THEN [d EXCEPT ![Head(entries).key] =
                                 enginePullFile(v[Head(entries).key])]
                         ELSE d},
               t \in {Tail(entries)}})

\* Workspace._pushAll(): every local file that needs it is pushed
RECURSIVE pushAll(_, _, _, _)
pushAll(n, w, d, files) ==
  IF files = <<>> THEN w
  ELSE Only({pushAll(n, w1, d, t) :
               w1 \in {IF ~wsShouldIgnore(Head(files))
                          /\ engineNeedsSync(d[Head(files)], w.ns.view[Head(files)])
                         THEN enginePushFile(n, w, Head(files), d[Head(files)])
                         ELSE w},
               t \in {Tail(files)}})

\* Workspace._walkDir(dir): the files of directory d, in directory order
wsWalkDir(d, order) == SelectSeq(order, LAMBDA p : d[p] # Absent)

\* --------------------------------------------------------------- actions
\* a SyncEngine after init(): nothing emitted, no call returned
EngInit ==
  [emitted |-> {}, ret |-> "none",
   pollPc |-> "off", attempts |-> 0, pollEmitted |-> {}, pollRet |-> "none",
   closePc |-> "open", timer |-> FALSE,
   ready |-> TRUE, loadPc |-> "done", file |-> [exists |-> FALSE, lines |-> <<>>],
   ignorePatterns |-> IgnorePatterns, used |-> {}]

\* a Daemon after its constructor, with the connection of a client: the server
\* and the socket file, the workspace map (the engine under the one directory
\* key, 0 for none), the engines created, the bytes and lines received, the
\* data handlers and stop() calls in flight, the response lines written
DmnInit ==
  [running |-> FALSE, started |-> FALSE, socket |-> FALSE, listening |-> FALSE,
   ws |-> 0, engs |-> <<>>, stream |-> <<>>, buffer |-> <<>>, nlines |-> 0,
   hs |-> <<>>, out |-> <<>>, immediates |-> 0, stops |-> <<>>]

\* a View nothing was applied to: an empty Hyperbee on an empty core
BeeInit ==
  [view |-> EmptyView, length |-> 0, writers |-> {Boot}, failed |-> FALSE, batch |-> <<>>]

Init ==
  /\ log = [w \in Nodes |-> <<>>]
  /\ have = [n \in Nodes |-> [w \in Nodes |-> 0]]
  /\ applied = [n \in Nodes |-> <<>>]
  /\ view = [n \in Nodes |-> EmptyView]
  /\ writers = [n \in Nodes |-> {Boot}]
  /\ activeWriters = [n \in Nodes |-> {Boot}]
  /\ conn = {}
  /\ msgs = {}
  /\ receivedKeys = [n \in Nodes |-> [m \in Nodes |-> {}]]
  /\ disk = [n \in Nodes |-> [p \in Paths |-> Absent]]
  /\ pushPc = [n \in Nodes |-> "idle"]
  /\ delq = [n \in Nodes |-> <<>>]
  /\ edits = 0
  /\ cycle = [n \in Nodes |-> <<>>]
  /\ running = [n \in Nodes |-> 0]
  /\ waiting = [n \in Nodes |-> FALSE]
  /\ reqs = [n \in Nodes |-> 0]
  /\ started = [n \in Nodes |-> 0]
  /\ eng = [n \in Nodes |-> EngInit]
  /\ dmn = DmnInit
  /\ bee = BeeInit

\* PearSyncAutobase.append(op)
append(n, op) ==
  /\ writable(n)
  /\ SumLen(log, Nodes) < MaxBlocks
  /\ \E w \in {Appended(n, NS(n), log, have[n], op)} : SetWorld(n, w)

\* the puts and dels a direct caller of append issues (on the first path; the
\* pushes of the engine write every path)
FileOps(n) ==
  {PutOp(PathOrder[1], FileMeta(c, 0, n)) : c \in Contents} \cup {DelOp(PathOrder[1])}

WriterOps == {AddWriterOp(k) : k \in Nodes} \cup {RemoveWriterOp(k) : k \in Nodes}

\* a caller of PearSyncAutobase.append with a put or a del
AppendFileOp(n) == (\E op \in FileOps(n) : append(n, op)) /\ UNCHANGED <<net, local>>

\* a caller of PearSyncAutobase.append with an add-writer or a remove-writer
AppendWriterOp(n) == (\E op \in WriterOps : append(n, op)) /\ UNCHANGED <<net, local>>

\* corestore replication of writer w's log to node n, one block at a time
Replicate(n, w) ==
  /\ have[n][w] < Len(log[w])
  /\ \E m \in Nodes : have[m][w] > have[n][w]
  /\ have' = [have EXCEPT ![n][w] = @ + 1]
  /\ UNCHANGED <<log, applied, view, writers, activeWriters, net, local>>

\* base.update()
Update(n) ==
  /\ \E k \in Splits : \E ns \in {Updated(NS(n), log, have[n], k)} : SetNS(n, ns)
  /\ UNCHANGED <<log, have, net, local>>

\* PearSyncAutobase.addWriter(writerKey)
addWriter(n, k) ==
  /\ activeWriters' = [activeWriters EXCEPT ![n] = @ \cup {k}]
  /\ UNCHANGED <<log, have, applied, view, writers, net, local>>

\* removeWriter without the isSelf test
removeWriterAny(n, k) ==
  /\ activeWriters' = [activeWriters EXCEPT ![n] = @ \ {k}]
  /\ UNCHANGED <<log, have, applied, view, writers, net, local>>

\* PearSyncAutobase.removeWriter(writerKey)
removeWriter(n, k) ==
  /\ activeWriters' = [activeWriters EXCEPT ![n] = IF k = n THEN @ \ {k} ELSE @]
  /\ UNCHANGED <<log, have, applied, view, writers, net, local>>

\* ------------------------------------------------- writer exchange channel
\* swarm 'connection' on both ends: _exchangeWriterKeys opens the channel with a
\* fresh receivedKeys set and onopen sends the local writer key
Connect(n, m) ==
  /\ n # m
  /\ {n, m} \notin conn
  /\ conn' = conn \cup {{n, m}}
  /\ msgs' = msgs \cup {<<n, m>>, <<m, n>>}
  /\ receivedKeys' = [receivedKeys EXCEPT ![n][m] = {}, ![m][n] = {}]
  /\ UNCHANGED <<base, local>>

\* socket 'close': messages in flight on the connection are lost
Disconnect(n, m) ==
  /\ {n, m} \in conn
  /\ conn' = conn \ {{n, m}}
  /\ msgs' = msgs \ {<<n, m>>, <<m, n>>}
  /\ UNCHANGED <<base, receivedKeys, local>>

\* corestore replication over an open connection (store.replicate(socket)):
\* node n downloads the next block of writer w from a connected peer
ReplicateOver(n, w) ==
  /\ have[n][w] < Len(log[w])
  /\ \E m \in Nodes : {n, m} \in conn /\ have[m][w] > have[n][w]
  /\ have' = [have EXCEPT ![n][w] = @ + 1]
  /\ UNCHANGED <<log, applied, view, writers, activeWriters, net, local>>

\* an onmessage that records the key and updates but never appends add-writer
OnWriterKeyNoAppend(n, m) ==
  /\ <<m, n>> \in msgs
  /\ msgs' = msgs \ {<<m, n>>}
  /\ conn' = conn
  /\ UNCHANGED local
  /\ receivedKeys' = [receivedKeys EXCEPT ![n][m] = @ \cup {m}]
  /\ \E k \in Splits : \E ns \in {Updated(NS(n), log, have[n], k)} : SetNS(n, ns)
  /\ UNCHANGED <<log, have>>

\* writerKeyMessage.onmessage at node n for the key of peer m (the delivery
\* waits while the block budget of the model is used up)
OnWriterKey(n, m) ==
  /\ <<m, n>> \in msgs
  /\ (m \notin receivedKeys[n][m] /\ m # n /\ writable(n))
       => SumLen(log, Nodes) < MaxBlocks
  /\ msgs' = msgs \ {<<m, n>>}
  /\ conn' = conn
  /\ UNCHANGED local
  /\ IF m \in receivedKeys[n][m] THEN UNCHANGED <<base, receivedKeys>>
     ELSE /\ receivedKeys' = [receivedKeys EXCEPT ![n][m] = @ \cup {m}]
          /\ IF m = n THEN UNCHANGED base
             ELSE IF writable(n)
               THEN append(n, AddWriterOp(m))
               ELSE /\ \E k \in Splits : \E ns \in {Updated(NS(n), log, have[n], k)} : SetNS(n, ns)
                    /\ UNCHANGED <<log, have>>

\* an onmessage that appends add-writer without testing base.writable
onmessageAlways(n, m, k) ==
  IF k \in receivedKeys[n][m] THEN UNCHANGED <<base, receivedKeys>>
  ELSE /\ receivedKeys' = [receivedKeys EXCEPT ![n][m] = @ \cup {k}]
       /\ IF k = n THEN UNCHANGED base
          ELSE /\ SumLen(log, Nodes) < MaxBlocks
               /\ \E w \in {Appended(n, NS(n), log, have[n], AddWriterOp(k))} : SetWorld(n, w)

\* the body of writerKeyMessage.onmessage at node n, on its connection with m,
\* for the key k read from the wire
onmessage(n, m, k) ==
  IF k \in receivedKeys[n][m] THEN UNCHANGED <<base, receivedKeys>>
  ELSE /\ receivedKeys' = [receivedKeys EXCEPT ![n][m] = @ \cup {k}]
       /\ IF k = n THEN UNCHANGED base
          ELSE IF writable(n)
            THEN append(n, AddWriterOp(k))
            ELSE /\ \E j \in Splits : \E ns \in {Updated(NS(n), log, have[n], j)} : SetNS(n, ns)
                 /\ UNCHANGED <<log, have>>

\* a writer-key message with any key k arrives at node n on its open connection
\* with m (the channel delivers whatever the peer sends, as often as it sends)
ReceiveKey(n, m, k) ==
  /\ {n, m} \in conn
  /\ onmessage(n, m, k)
  /\ UNCHANGED <<conn, msgs, local>>

\* ------------------------------------------------- _pollForWriterStatus
maxAttempts == 30

\* the call of _pollForWriterStatus() at the end of _exchangeWriterKeys, made
\* when the engine is not writable; the poll sleeps before every attempt
PollStart(n) ==
  /\ \E m \in Nodes : {n, m} \in conn
  /\ ~writable(n)
  /\ eng[n].pollPc = "off"
  /\ eng' = [eng EXCEPT ![n].pollPc = "polling"]
  /\ UNCHANGED <<base, net, disk, pushPc, delq, edits, cycle, deb, dmn, bee>>

\* the poll after an attempt that did not return: the next iteration, or after
\* the last one the timeout error and false
PollMissed(e) ==
  IF e.attempts + 1 < maxAttempts
    THEN [e EXCEPT !.attempts = @ + 1]
    ELSE [e EXCEPT !.attempts = @ + 1, !.pollPc = "returned", !.pollRet = "false",
                   !.pollEmitted = @ \cup {<<"error", "writer-status">>}]

\* one iteration of the loop of _pollForWriterStatus: base.update(), and when
\* it returned, the test of base.writable; an update that throws is ignored
PollAttempt(n) ==
  /\ eng[n].pollPc = "polling"
  /\ \E ok \in BOOLEAN :
       IF ok
         THEN \E k \in Splits : \E u \in {Updated(NS(n), log, have[n], k)} :
                /\ SetNS(n, u)
                /\ eng' = [eng EXCEPT ![n] =
                     IF n \in u.writers
                       THEN [@ EXCEPT !.attempts = @ + 1, !.pollPc = "returned",
                                      !.pollRet = "true",
                                      !.pollEmitted = @ \cup {<<"writer-ready">>}]
                       ELSE PollMissed(@)]
         ELSE /\ UNCHANGED <<applied, view, writers, activeWriters>>
              /\ eng' = [eng EXCEPT ![n] = PollMissed(@)]
  /\ UNCHANGED <<log, have, net, disk, pushPc, delq, edits, cycle, deb, dmn, bee>>

\* ------------------------------------------------------- local directory
\* the user writes file p of node n's directory
WriteFile(n, p) ==
  /\ edits < MaxEdits
  /\ \E v \in Versions : disk' = [disk EXCEPT ![n][p] = v]
  /\ edits' = edits + 1
  /\ UNCHANGED <<base, net, pushPc, delq, cycle, deb, eng, dmn, bee>>

\* the user deletes file p of node n's directory
DeleteFile(n, p) ==
  /\ edits < MaxEdits
  /\ disk[n][p] # Absent
  /\ disk' = [disk EXCEPT ![n][p] = Absent]
  /\ edits' = edits + 1
  /\ UNCHANGED <<base, net, pushPc, delq, cycle, deb, eng, dmn, bee>>

\* ------------------------------------------------------------------- push
\* syncToRemote up to the list() call of the deletion loop: the wait for writer
\* status (one update stands for the ten), the put loop, the snapshot
PushStart(n) ==
  /\ pushPc[n] = "idle"
  /\ \E u \in {IF writable(n) THEN NS(n) ELSE Updated(NS(n), log, have[n], 0)} :
       IF n \notin u.writers
         THEN SetNS(n, u) /\ UNCHANGED <<log, have, pushPc, delq>>
         ELSE \E order \in Orders :
                \E w \in {PutLoop(n, [ns |-> u, lg |-> log, h |-> have[n]], disk[n],
                                  walkDir(disk[n], order))} :
                  /\ SumLen(w.lg, Nodes) <= MaxPushBlocks
                  /\ SetWorld(n, w)
                  /\ \E q \in {IF syncDeletes THEN list(w.ns.view) ELSE <<>>} :
                       /\ delq' = [delq EXCEPT ![n] = q]
                       /\ pushPc' = [pushPc EXCEPT ![n] =
                                       IF q = <<>> THEN "idle" ELSE "deleting"]
  /\ UNCHANGED <<net, disk, edits, cycle, deb, dmn, bee>>

\* one iteration of the deletion loop over the snapshot: fs.access and, when
\* the file is missing, _pushDelete
PushDelete(n) ==
  /\ pushPc[n] = "deleting"
  /\ \E w \in {DelStep(n, World(n), disk[n], Head(delq[n]))} :
       /\ SumLen(w.lg, Nodes) <= MaxPushBlocks
       /\ SetWorld(n, w)
  /\ delq' = [delq EXCEPT ![n] = Tail(@)]
  /\ pushPc' = [pushPc EXCEPT ![n] = IF Tail(delq[n]) = <<>> THEN "idle" ELSE "deleting"]
  /\ UNCHANGED <<net, disk, edits, cycle, deb, dmn, bee>>

\* a syncToRemote that ends without emitting anything
PushEmitsNothing(n) ==
  eng' = [eng EXCEPT ![n].emitted = {}, ![n].ret = "null"]

\* what the syncToRemote of the PushStart step emits and returns: the error of
\* an engine that is not a writer after its wait; else sync-start, one error
\* per file the put loop failed on, and sync-complete with the stats unless
\* the deletion loop has entries left
PushEmits(n) ==
  eng' = [eng EXCEPT
    ![n].emitted =
      IF n \notin writers'[n]
        THEN {<<"error", "sync", "Not a writer - cannot push changes">>}
        ELSE {<<"sync-start">>}
             \cup {<<"error", "push", p>> : p \in {q \in Synced : Locked(disk[n][q])}}
             \cup (IF pushPc'[n] = "idle" THEN {<<"sync-complete">>} ELSE {}),
    ![n].ret = IF n \notin writers'[n] THEN "null"
               ELSE IF pushPc'[n] = "idle" THEN "stats" ELSE "none"]

\* the end of syncToRemote after the last iteration of the deletion loop
PushDeleteEmits(n) ==
  eng' = [eng EXCEPT
    ![n].emitted = IF pushPc'[n] = "idle" THEN @ \cup {<<"sync-complete">>} ELSE @,
    ![n].ret = IF pushPc'[n] = "idle" THEN "stats" ELSE @]

\* what the syncToLocal of the Pull step emits: sync-start, one error per entry
\* whose _pullFile failed, sync-complete
PullEmitted(n) ==
  {<<"sync-start">>}
  \cup {<<"error", "pull", p>> :
          p \in {q \in Synced : /\ view'[n][q] # Absent
                                /\ needsPull(disk[n][q], view'[n][q])
                                /\ Locked(disk[n][q])}}
  \cup {<<"sync-complete">>}

\* the events and the return value (the stats) of the Pull step
PullEmits(n) ==
  eng' = [eng EXCEPT ![n].emitted = PullEmitted(n), ![n].ret = "stats"]

\* ------------------------------------------------------------------- pull
\* SyncEngine.syncToLocal(): base.update(), the pull loop, the local deletions
Pull(n) ==
  /\ \E k \in Splits : \E u \in {Updated(NS(n), log, have[n], k)} :
       /\ SetNS(n, u)
       /\ disk' = [disk EXCEPT ![n] = syncToLocal(u.view, disk[n])]
  /\ UNCHANGED <<log, have, net, pushPc, delq, edits, cycle, deb, dmn, bee>>

\* the versions saved under path p (the engines never read an ignored file, one
\* version of it is enough)
VersionsOf(p) ==
  IF shouldIgnore(p) THEN {[content |-> "x", mtime |-> 1000]} ELSE SyncVersions

\* the user saves file p of node n's directory
SaveFile(n, p) ==
  /\ edits < MaxSyncEdits
  /\ \E v \in VersionsOf(p) : disk' = [disk EXCEPT ![n][p] = v]
  /\ edits' = edits + 1
  /\ UNCHANGED <<base, net, pushPc, delq, cycle, deb, eng, dmn, bee>>

\* the user removes file p of node n's directory
UnlinkFile(n, p) ==
  /\ edits < MaxSyncEdits
  /\ disk[n][p] # Absent
  /\ disk' = [disk EXCEPT ![n][p] = Absent]
  /\ edits' = edits + 1
  /\ UNCHANGED <<base, net, pushPc, delq, cycle, deb, eng, dmn, bee>>

\* the user takes the read and write permissions of file p of node n away (one
\* file is without permissions at a time)
LockFile(n, p) ==
  /\ disk[n][p] # Absent
  /\ \A m \in Nodes, q \in Paths : ~Locked(disk[m][q])
  /\ disk' = [disk EXCEPT ![n][p] =
                [content |-> @.content, mtime |-> @.mtime, locked |-> TRUE]]
  /\ UNCHANGED <<base, net, pushPc, delq, edits, cycle, deb, eng, dmn, bee>>

\* a caller of PearSyncAutobase.append puts an entry under a name the engines
\* ignore
AppendIgnored(n) ==
  /\ \E p \in Ignored : \E v \in VersionsOf(p) :
       append(n, PutOp(p, FileMeta(v.content, v.mtime, n)))
  /\ UNCHANGED <<net, local>>

\* ------------------------------------------------------------------ close
\* this.watching, the watcher and the intervals of startWatching are live
Open(n) == eng[n].closePc = "open"

\* autobase.close() has returned
BaseClosed(n) == eng[n].closePc \in {"closingStore", "closed"}

\* close() up to its first await: stopWatching() destroys the watcher and clears
\* the intervals, swarm.destroy() is called
CloseStart(n) ==
  /\ Open(n)
  /\ eng' = [eng EXCEPT ![n].closePc = "leaving"]
  /\ UNCHANGED <<base, net, disk, pushPc, delq, edits, cycle, deb, dmn, bee>>

\* swarm.destroy() returns: the connections of n are gone; autobase.close() is
\* called
CloseLeft(n) ==
  /\ eng[n].closePc = "leaving"
  /\ conn' = {c \in conn : n \notin c}
  /\ msgs' = {m \in msgs : m[1] # n /\ m[2] # n}
  /\ eng' = [eng EXCEPT ![n].closePc = "closingBase"]
  /\ UNCHANGED <<base, receivedKeys, disk, pushPc, delq, edits, cycle, deb, dmn, bee>>

\* autobase.close() returns; store.close() is called
CloseBase(n) ==
  /\ eng[n].closePc = "closingBase"
  /\ eng' = [eng EXCEPT ![n].closePc = "closingStore"]
  /\ UNCHANGED <<base, net, disk, pushPc, delq, edits, cycle, deb, dmn, bee>>

\* store.close() returns: ready = false, 'close' is emitted
CloseStore(n) ==
  /\ eng[n].closePc = "closingStore"
  /\ eng' = [eng EXCEPT ![n].closePc = "closed"]
  /\ UNCHANGED <<base, net, disk, pushPc, delq, edits, cycle, deb, dmn, bee>>

\* the setTimeout of the writer-key handler fires: _syncToLocal(), which is
\* syncToLocal() and returns at once when the engine is not ready
TimerSync(n) ==
  /\ eng[n].timer
  /\ IF eng[n].closePc # "closed"
       THEN /\ Pull(n)
            /\ eng' = [eng EXCEPT ![n].timer = FALSE, ![n].emitted = PullEmitted(n),
                                  ![n].ret = "stats"]
       ELSE /\ eng' = [eng EXCEPT ![n].timer = FALSE, ![n].ret = "null",
                         ![n].emitted = {<<"error", "sync", "Not initialized">>}]
            /\ UNCHANGED <<base, net, disk, pushPc, delq, edits, cycle, deb, dmn, bee>>

\* -------------------------------------------------------------- _fullSync
\* Workspace._fullSync, first awaited call: _pullAll()
FullSyncPull(n) ==
  /\ cycle[n] = <<>>
  /\ disk' = [disk EXCEPT ![n] = pullAll(view[n], disk[n], list(view[n]))]
  /\ cycle' = [cycle EXCEPT ![n] = <<"pull">>]
  /\ UNCHANGED <<base, net, pushPc, delq, edits, deb, eng, dmn, bee>>

\* Workspace._fullSync, second awaited call: _pushAll(); the cycle is complete
FullSyncPush(n) ==
  /\ cycle[n] = <<"pull">>
  /\ \E order \in Orders :
       \E w \in {pushAll(n, World(n), disk[n], wsWalkDir(disk[n], order))} :
         /\ SumLen(w.lg, Nodes) <= MaxPushBlocks
         /\ SetWorld(n, w)
  /\ cycle' = [cycle EXCEPT ![n] = <<>>]
  /\ UNCHANGED <<net, disk, pushPc, delq, edits, deb, eng, dmn, bee>>

\* --------------------------------------------------------------- debounce
\* a call that starts the worker at once, whether or not one is in flight
DebouncedEager(n) ==
  /\ reqs[n] < MaxReqs /\ started[n] < MaxReqs
  /\ running' = [running EXCEPT ![n] = @ + 1]
  /\ started' = [started EXCEPT ![n] = @ + 1]
  /\ reqs' = [reqs EXCEPT ![n] = IF running[n] = 0 THEN 0 ELSE @ + 1]
  /\ UNCHANGED <<base, net, disk, pushPc, delq, edits, cycle, eng, dmn, bee, waiting>>

\* a call of this._syncToRemote(), the debounced syncToRemote: it starts the
\* worker when none is in flight and otherwise leaves one follow-up pending
Debounced(n) ==
  /\ reqs[n] < MaxReqs /\ started[n] < MaxReqs
  /\ IF running[n] = 0
       THEN /\ running' = [running EXCEPT ![n] = 1]
            /\ started' = [started EXCEPT ![n] = @ + 1]
            /\ reqs' = [reqs EXCEPT ![n] = 0]
            /\ UNCHANGED waiting
       ELSE /\ waiting' = [waiting EXCEPT ![n] = TRUE]
            /\ reqs' = [reqs EXCEPT ![n] = @ + 1]
            /\ UNCHANGED <<running, started>>
  /\ UNCHANGED <<base, net, disk, pushPc, delq, edits, cycle, eng, dmn, bee>>

\* the syncToRemote in flight returns: a pending follow-up starts the worker
\* again, once
WorkerDone(n) ==
  /\ running[n] > 0
  /\ IF waiting[n]
       THEN /\ waiting' = [waiting EXCEPT ![n] = FALSE]
            /\ started' = [started EXCEPT ![n] = @ + 1]
            /\ UNCHANGED running
       ELSE /\ running' = [running EXCEPT ![n] = @ - 1]
            /\ UNCHANGED <<waiting, started>>
  /\ reqs' = [reqs EXCEPT ![n] = 0]
  /\ UNCHANGED <<base, net, disk, pushPc, delq, edits, cycle, eng, dmn, bee>>

\* ----------------------------------------------------------------- Daemon
\* the bytes of the IPC stream: the newline, the blank, and one character for
\* each JSON text a client sends: status, list, shutdown, an unknown command,
\* text that is no JSON, watch and unwatch of a directory, of a file, of a
\* path that does not exist
Nl == "nl"
Sp == " "
Dir == "/ws"
Requests == {"S", "L", "Q", "U", "X", "Wd", "Wf", "Wn", "Nd", "Nn"}

\* String.prototype.trim on a line
RECURSIVE TrimLeft(_)
TrimLeft(l) == IF l # <<>> /\ Head(l) = Sp THEN TrimLeft(Tail(l)) ELSE l
RECURSIVE TrimRight(_)
TrimRight(l) ==
  IF l # <<>> /\ l[Len(l)] = Sp THEN TrimRight(SubSeq(l, 1, Len(l) - 1)) ELSE l
Trim(l) == TrimRight(TrimLeft(l))

\* buffer.split('\n'): the pieces of b between the newlines, the last one the
\* incomplete line
RECURSIVE Split(_, _, _)
Split(b, done, cur) ==
  IF b = <<>> THEN Append(done, cur)
  ELSE IF Head(b) = Nl THEN Split(Tail(b), Append(done, cur), <<>>)
  ELSE Split(Tail(b), done, Append(cur, Head(b)))

\* a split that forgets the incomplete line
SplitNoRest(b) ==
  LET ps == Split(b, <<>>, <<>>) IN [ps EXCEPT ![Len(ps)] = <<>>]

\* the lines and the kept rest of buffer b
SplitLines(b) == Split(b, <<>>, <<>>)

\* a parser that takes every line for a status request
JSONparseAny(l) == "S"

\* JSON.parse(line): one JSON text with blanks around it, or a SyntaxError
JSONparse(l) ==
  IF Len(Trim(l)) = 1 /\ Trim(l)[1] \in Requests \ {"X"} THEN Trim(l)[1] ELSE "invalid"

\* message.command and message.workspace
commandOf(m) ==
  CASE m = "S" -> "status" [] m = "L" -> "list" [] m = "Q" -> "shutdown"
    [] m \in {"Wd", "Wf", "Wn"} -> "watch" [] m \in {"Nd", "Nn"} -> "unwatch"
    [] OTHER -> "unknown"
workspaceOf(m) ==
  CASE m \in {"Wd", "Nd"} -> Dir [] m = "Wf" -> "/file" [] OTHER -> "/none"

\* a map that never has the key
hasNever(d, p) == FALSE

\* this.workspaces.has(workspace)
has(d, p) == p = Dir /\ d.ws # 0

\* a stat that finds a directory under every path
statAnyDir(p) == "directory"

\* fs.stat(workspace): a directory, a file, or ENOENT
stat(p) == IF p = Dir THEN "directory" ELSE IF p = "/file" THEN "file" ELSE "ENOENT"

\* an engine in state e after an engine.close() that returned (ok) or threw
closed(e, ok) == IF ok \/ e = "closed" THEN "closed" ELSE "closeFailed"

\* the response line for request line i
Resp(i, kind, msg) == [line |-> i, kind |-> kind, msg |-> msg]

\* the handler h of a data event has dealt with its current line
NextLine(h) == [h EXCEPT !.todo = Tail(@), !.pc = "line", !.eng = 0]

\* the iterators of the stop() calls after workspaces.delete or clear: an entry
\* set afterwards is a new entry
Unseen(stops) == [i \in DOMAIN stops |-> [stops[i] EXCEPT !.seen = FALSE]]

\* an unwatch that deletes the entry whether or not the close succeeded
unwatchedAlways(d, h, ok) ==
  [d EXCEPT !.engs[h.eng] = closed(@, ok), !.ws = 0, !.stops = Unseen(@),
            !.out = Append(@, IF ok
                     THEN Resp(Head(h.todo).line, "success", "Workspace removed successfully")
                     ELSE Resp(Head(h.todo).line, "error", "Failed to unwatch workspace"))]

\* _handleUnwatch after its await: engine.close() returned (ok) or threw
unwatched(d, h, ok) ==
  IF ok
    THEN [d EXCEPT !.engs[h.eng] = "closed", !.ws = 0, !.stops = Unseen(@),
                   !.out = Append(@, Resp(Head(h.todo).line, "success",
                                          "Workspace removed successfully"))]
    ELSE [d EXCEPT !.engs[h.eng] = closed(@, FALSE),
                   !.out = Append(@, Resp(Head(h.todo).line, "error",
                                          "Failed to unwatch workspace"))]

\* _handleMessage(message) up to its first await or to its return, for the
\* line at the head of handler h: the daemon and the handler it leaves
handleMessage(d, h) ==
  LET i == Head(h.todo).line
      m == JSONparse(Head(h.todo).text)
      c == commandOf(m)
      p == workspaceOf(m)
      answer(d1, kind, msg) ==
        [d |-> [d1 EXCEPT !.out = Append(@, Resp(i, kind, msg))], h |-> NextLine(h)]
  IN IF m = "invalid" THEN answer(d, "error", "Invalid message")
     ELSE IF c = "status" THEN answer(d, "status", "")
     ELSE IF c = "list" THEN answer(d, "list", "")
     ELSE IF c = "shutdown"
       THEN answer([d EXCEPT !.immediates = @ + 1], "success", "Shutting down")
     ELSE IF c = "watch"
       THEN IF has(d, p) THEN answer(d, "success", "Already watching workspace")
            ELSE [d |-> d, h |-> [h EXCEPT !.pc = "stat"]]
     ELSE IF c = "unwatch"
       THEN IF ~has(d, p) THEN answer(d, "error", "Workspace not found")
            ELSE [d |-> d, h |-> [h EXCEPT !.pc = "close", !.eng = d.ws]]
     ELSE answer(d, "error", "Unknown command")

\* _handleWatch after fs.stat: the error responses, or new SyncEngine(workspace)
\* and the await of engine.ready()
watchStat(d, h) ==
  LET i == Head(h.todo).line
      p == workspaceOf(JSONparse(Head(h.todo).text))
  IN IF stat(p) = "ENOENT"
       THEN [d |-> [d EXCEPT !.out = Append(@, Resp(i, "error", "Failed to watch workspace"))],
             h |-> NextLine(h)]
     ELSE IF stat(p) # "directory"
       THEN [d |-> [d EXCEPT !.out = Append(@, Resp(i, "error", "Workspace must be a directory"))],
             h |-> NextLine(h)]
     ELSE [d |-> [d EXCEPT !.engs = Append(@, "new")],
           h |-> [h EXCEPT !.pc = "ready", !.eng = Len(d.engs) + 1]]

\* _handleWatch after engine.ready(): workspaces.set and the success response
watchReady(d, h) ==
  [d |-> [d EXCEPT !.engs[h.eng] = "ready", !.ws = h.eng,
                   !.out = Append(@, Resp(Head(h.todo).line, "success",
                                          "Workspace added successfully"))],
   h |-> NextLine(h)]

\* the handlers of d with handler k replaced by h, and dropped when it has no
\* line left
WithHandler(d, k, h) ==
  [d EXCEPT !.hs = IF h.todo = <<>>
                     THEN SubSeq(@, 1, k - 1) \o SubSeq(@, k + 1, Len(@))
                     ELSE [@ EXCEPT ![k] = h]]

\* socket 'data' up to the first await: the buffer takes the chunk, the
\* complete lines leave it, the blank ones are skipped
onData(d, chunk) ==
  LET ps == SplitLines(d.buffer \o chunk)
      n == Len(ps) - 1
      todo == [j \in 1..n |-> [line |-> d.nlines + j, text |-> ps[j]]]
      work == SelectSeq(todo, LAMBDA t : Trim(t.text) # <<>>)
  IN [d EXCEPT !.stream = @ \o chunk, !.buffer = ps[Len(ps)], !.nlines = @ + n,
               !.hs = IF work = <<>> THEN @
                      ELSE Append(@, [todo |-> work, pc |-> "line", eng |-> 0])]

\* daemon.start()
Start ==
  /\ ~dmn.started
  /\ dmn' = [dmn EXCEPT !.started = TRUE, !.running = TRUE, !.socket = TRUE,
                         !.listening = TRUE]
  /\ UNCHANGED <<base, net, disk, pushPc, delq, edits, cycle, deb, eng, bee>>

\* a data event on the connection with the given bytes; the connection ends
\* before the callback of server.close() runs
Data(chunk) ==
  /\ dmn.running
  /\ Len(dmn.stream) + Len(chunk) <= MaxBytes
  /\ dmn.nlines + Len(SplitLines(dmn.buffer \o chunk)) - 1 <= MaxLines
  /\ dmn' = onData(dmn, chunk)
  /\ UNCHANGED <<base, net, disk, pushPc, delq, edits, cycle, deb, eng, bee>>

\* handler k goes on: with the next line, after fs.stat, after engine.ready(),
\* after engine.close()
Handle(k) ==
  /\ k \in DOMAIN dmn.hs
  /\ \E h \in {dmn.hs[k]} :
       \/ /\ h.pc = "line"
          /\ \E r \in {handleMessage(dmn, h)} : dmn' = WithHandler(r.d, k, r.h)
       \/ /\ h.pc = "stat"
          /\ stat(workspaceOf(JSONparse(Head(h.todo).text))) = "directory"
               => Len(dmn.engs) < MaxEngines
          /\ \E r \in {watchStat(dmn, h)} : dmn' = WithHandler(r.d, k, r.h)
       \/ /\ h.pc = "ready"
          /\ \E r \in {watchReady(dmn, h)} : dmn' = WithHandler(r.d, k, r.h)
       \/ /\ h.pc = "close"
          /\ \E ok \in BOOLEAN : dmn' = WithHandler(unwatched(dmn, h, ok), k, NextLine(h))
  /\ UNCHANGED <<base, net, disk, pushPc, delq, edits, cycle, deb, eng, bee>>

\* stop() is called, by the setImmediate of a shutdown command or by the
\* graceful-goodbye handler of a signal: it returns at once when the daemon is
\* not running
Stop(byCommand) ==
  /\ dmn.started
  /\ IF byCommand THEN dmn.immediates > 0 ELSE Len(dmn.stops) < MaxStops
  /\ dmn' = [dmn EXCEPT
       !.immediates = IF byCommand THEN @ - 1 ELSE @,
       !.stops = IF dmn.running
                   THEN Append(@, [pc |-> "loop", seen |-> FALSE, eng |-> 0])
                   ELSE Append(@, [pc |-> "done", seen |-> FALSE, eng |-> 0])]
  /\ UNCHANGED <<base, net, disk, pushPc, delq, edits, cycle, deb, eng, bee>>

\* stop() call k goes on: the next entry of the map, or after the last one
\* workspaces.clear() and server.close(); the return of an engine.close(); the
\* callback of server.close(), which waits for the connections to end
StopStep(k) ==
  /\ k \in DOMAIN dmn.stops
  /\ \E st \in {dmn.stops[k]} :
       \/ /\ st.pc = "loop" /\ dmn.ws # 0 /\ ~st.seen
          /\ dmn' = [dmn EXCEPT !.stops[k] = [pc |-> "closing", seen |-> TRUE,
                                              eng |-> dmn.ws]]
       \/ /\ st.pc = "loop" /\ (dmn.ws = 0 \/ st.seen)
          /\ dmn' = [dmn EXCEPT !.ws = 0, !.listening = FALSE,
                       !.stops = [Unseen(@) EXCEPT ![k].pc = "server"]]
       \/ /\ st.pc = "closing"
          /\ \E ok \in BOOLEAN :
               dmn' = [dmn EXCEPT !.engs[st.eng] = closed(@, ok),
                                  !.stops[k].pc = "loop"]
       \/ /\ st.pc = "server" /\ dmn.hs = <<>>
          /\ dmn' = [dmn EXCEPT !.running = FALSE, !.socket = FALSE,
                                 !.stops[k].pc = "done"]
  /\ UNCHANGED <<base, net, disk, pushPc, delq, edits, cycle, deb, eng, bee>>

\* ------------------------------------- constructor, _loadIgnoreFile, init
\* the .pearsyncignore of a local directory: none, or a file of lines
IgnoreFiles ==
  {[exists |-> FALSE, lines |-> <<>>],
   [exists |-> TRUE, lines |-> <<"# build", "b.txt", "">>]}

\* content.split('\n').map(trim).filter(line && !line.startsWith('#'))
patternsOf(lines) ==
  {lines[i] : i \in {j \in 1..Len(lines) : lines[j] # "" /\ lines[j] # "# build"}}

\* the engine when its constructor has returned: the default patterns, the
\* readFile of _loadIgnoreFile in flight, ready false
Constructed(f) ==
  [EngInit EXCEPT !.ready = FALSE, !.loadPc = "reading", !.file = f]

\* _loadIgnoreFile resumes after its readFile: the list is replaced, or the
\* catch leaves it when there is no file
loadIgnoreFile(n) ==
  /\ eng[n].loadPc = "reading"
  /\ eng' = [eng EXCEPT ![n].loadPc = "done",
                        ![n].ignorePatterns =
                           IF eng[n].file.exists
                             THEN IgnorePatterns \cup patternsOf(eng[n].file.lines)
                             ELSE @]
  /\ UNCHANGED <<base, net, disk, pushPc, delq, edits, cycle, deb, dmn, bee>>

\* init() returns; none of its awaits is the promise of _loadIgnoreFile
init(n) ==
  /\ ~eng[n].ready
  /\ eng' = [eng EXCEPT ![n].ready = TRUE]
  /\ UNCHANGED <<base, net, disk, pushPc, delq, edits, cycle, deb, dmn, bee>>

\* a push or a pull of the initialized engine calls shouldIgnore, which reads
\* this.ignorePatterns
consult(n) ==
  /\ eng[n].ready
  /\ eng' = [eng EXCEPT ![n].used = @ \cup {eng[n].ignorePatterns}]
  /\ UNCHANGED <<base, net, disk, pushPc, delq, edits, cycle, deb, dmn, bee>>

\* ------------------------------------- _applyBatch on one View, op by op
\* node.value of a block whose JSON value is null
NullOp == [type |-> "null"]
\* an op of a type _applyBatch has no branch for
UnknownOp == [type |-> "rename", key |-> PathOrder[1]]
\* an add-writer whose writerKey is missing
AddWriterNoKey == [type |-> "add-writer"]

\* b4a.from(op.writerKey, 'hex') throws a TypeError when writerKey is undefined
hexThrows(op) == "writerKey" \notin DOMAIN op

\* one iteration of the loop of _applyBatch on the View st: bee.put and bee.del
\* append one block to the View's core each (the Hyperbee is not part of the
\* sources; one version per write, as the specification has it), base.addWriter
\* and base.removeWriter write nothing to the View
applyNode(st, node) ==
  LET op == node.value IN
  IF op.type = "null" THEN st
  ELSE IF op.type = "put" THEN
    [st EXCEPT !.view = [st.view EXCEPT ![op.key] = op.value], !.length = @ + 1]
  ELSE IF op.type = "del" THEN
    [st EXCEPT !.view = [st.view EXCEPT ![op.key] = Absent], !.length = @ + 1]
  ELSE IF op.type = "add-writer" THEN
    IF hexThrows(op) THEN [st EXCEPT !.failed = TRUE]
    ELSE [st EXCEPT !.writers = @ \cup {op.writerKey}]
  ELSE IF op.type = "remove-writer" THEN
    IF hexThrows(op) THEN [st EXCEPT !.failed = TRUE]
    ELSE IF node.writer = op.writerKey
      THEN [st EXCEPT !.writers = @ \ {op.writerKey}]
      ELSE st
  ELSE st

\* the loop over the batch: the writes are started in batch order and the
\* Hyperbee serves them in the order they were started; an exception thrown in
\* the loop ends it, the writes started before stay
RECURSIVE applyLoop(_, _)
applyLoop(st, batch) ==
  IF batch = <<>> \/ st.failed THEN st
  ELSE applyLoop(applyNode(st, Head(batch)), Tail(batch))

\* the deletions of the batch are served before its other writes
applyBatchDelsFirst(st, batch) ==
  applyLoop(st, SelectSeq(batch, IsDel) \o SelectSeq(batch, NotDel))

\* PearSyncAutobase._applyBatch(batch, view, base) with the length of the View
\* and the outcome of the returned promise (failed: it rejected)
applyBatch(st, batch) == applyLoop(st, batch)

\* the blocks a batch is made of: file ops on one path, membership ops, and
\* blocks whose value is not a well-formed op
BatchNodes ==
  {[writer |-> Boot, value |-> op] :
     op \in {PutOp(PathOrder[1], FileMeta(c, 0, Boot)) : c \in Contents}
            \cup {DelOp(PathOrder[1]), AddWriterOp(1), RemoveWriterOp(1),
                  NullOp, UnknownOp, AddWriterNoKey}}
    \cup {[writer |-> 1, value |-> RemoveWriterOp(1)]}

RECURSIVE Batches(_)
Batches(k) ==
  IF k = 0 THEN {<<>>}
  ELSE Batches(k - 1) \cup {Append(b, x) : b \in {c \in Batches(k - 1) : Len(c) = k - 1},
                                           x \in BatchNodes}

\* the linearizer hands apply the next batch; after a rejected apply nothing
\* more is applied
ApplyStep(batch) ==
  /\ ~bee.failed
  /\ bee.length + Len(batch) <= MaxLength
  /\ bee' = [applyBatch(bee, batch) EXCEPT !.batch = batch]
  /\ UNCHANGED <<base, net, disk, pushPc, delq, edits, cycle, deb, eng, dmn>>

\* ---------------------------------------------------------- specifications
\* the replicated log, the linearizer and the apply function
Next ==
  \/ \E n \in Nodes : AppendFileOp(n)
  \/ \E n \in Nodes : AppendWriterOp(n)
  \/ \E n \in Nodes, w \in Nodes : Replicate(n, w)
  \/ \E n \in Nodes : Update(n)

Spec == Init /\ [][Next]_vars

\* the public membership operations of PearSyncAutobase
NextCalls ==
  \/ \E n \in Nodes : AppendWriterOp(n)
  \/ \E n \in Nodes, w \in Nodes : Replicate(n, w)
  \/ \E n \in Nodes : Update(n)
  \/ \E n \in Nodes, k \in Nodes : addWriter(n, k)
  \/ \E n \in Nodes, k \in Nodes : removeWriter(n, k)

SpecCalls == Init /\ [][NextCalls]_vars

\* the engines of two peers: writer admission over the exchange channel,
\* replication over open connections, update polling and file writes
NextExchange ==
  \/ \E n \in Nodes, m \in Nodes : Connect(n, m)
  \/ \E n \in Nodes, m \in Nodes : Disconnect(n, m)
  \/ \E n \in Nodes, m \in Nodes : OnWriterKey(n, m)
  \/ \E n \in Nodes, w \in Nodes : ReplicateOver(n, w)
  \/ \E n \in Nodes : Update(n)
  \/ \E n \in Nodes : AppendFileOp(n)

SpecExchange == Init /\ [][NextExchange]_vars

\* writer admission alone: connections, key exchange, replication over open
\* connections and update polling
NextAdmission ==
  \/ \E n \in Nodes, m \in Nodes : Connect(n, m)
  \/ \E n \in Nodes, m \in Nodes : Disconnect(n, m)
  \/ \E n \in Nodes, m \in Nodes : OnWriterKey(n, m)
  \/ \E n \in Nodes, w \in Nodes : ReplicateOver(n, w)
  \/ \E n \in Nodes : Update(n)

\* the swarm reconnects, channel messages are delivered, blocks held by a
\* connected peer are downloaded, and every engine keeps calling base.update()
SpecAdmission ==
  /\ Init /\ [][NextAdmission]_vars
  /\ \A n \in Nodes, m \in Nodes : WF_vars(Connect(n, m))
  /\ \A n \in Nodes, m \in Nodes : WF_vars(OnWriterKey(n, m))
  /\ \A n \in Nodes, w \in Nodes : SF_vars(ReplicateOver(n, w))
  /\ \A n \in Nodes : WF_vars(Update(n))

\* the engines after the bootstrap peer handled the joiner's writer key: the
\* add-writer block is in the bootstrap log, the joiner holds nothing yet, the
\* delayed _syncToLocal of the bootstrap peer's handler is pending
InitPush ==
  /\ log = [w \in Nodes |->
              IF w = Boot THEN <<[op |-> AddWriterOp(1), clock |-> [u \in Nodes |-> 0]]>>
              ELSE <<>>]
  /\ have = [n \in Nodes |-> [w \in Nodes |-> IF n = Boot /\ w = Boot THEN 1 ELSE 0]]
  /\ applied = [n \in Nodes |-> IF n = Boot THEN <<(<<Boot, 1>>)>> ELSE <<>>]
  /\ view = [n \in Nodes |-> EmptyView]
  /\ writers = [n \in Nodes |-> IF n = Boot THEN {1, Boot} ELSE {Boot}]
  /\ activeWriters = [n \in Nodes |-> IF n = Boot THEN {1, Boot} ELSE {Boot}]
  /\ conn = {{1, Boot}}
  /\ msgs = {<<Boot, 1>>}
  /\ receivedKeys = [n \in Nodes |-> [m \in Nodes |-> IF n = Boot /\ m = 1 THEN {1} ELSE {}]]
  /\ disk = [n \in Nodes |-> [p \in Paths |-> Absent]]
  /\ pushPc = [n \in Nodes |-> "idle"]
  /\ delq = [n \in Nodes |-> <<>>]
  /\ edits = 0
  /\ cycle = [n \in Nodes |-> <<>>]
  /\ running = [n \in Nodes |-> 0]
  /\ waiting = [n \in Nodes |-> FALSE]
  /\ reqs = [n \in Nodes |-> 0]
  /\ started = [n \in Nodes |-> 0]
  /\ eng = [n \in Nodes |-> IF n = Boot THEN [EngInit EXCEPT !.timer = TRUE] ELSE EngInit]
  /\ dmn = DmnInit
  /\ bee = BeeInit

\* local edits, pushes, replication and update of two admitted engines
NextPush ==
  \/ \E n \in Nodes, p \in Synced : WriteFile(n, p)
  \/ \E n \in Nodes, p \in Synced : DeleteFile(n, p)
  \/ \E n \in Nodes : PushStart(n) /\ UNCHANGED eng
  \/ \E n \in Nodes : PushDelete(n) /\ UNCHANGED eng
  \/ \E n \in Nodes, w \in Nodes : Replicate(n, w)
  \/ \E n \in Nodes : Update(n)

SpecPush == InitPush /\ [][NextPush]_vars

\* the path the users of the pulling engines edit
EditPaths == {PathOrder[1]}

\* two admitted engines that push and pull while their users edit one file
NextSync ==
  \/ \E n \in Nodes, p \in EditPaths : SaveFile(n, p)
  \/ \E n \in Nodes, p \in EditPaths : UnlinkFile(n, p)
  \/ \E n \in Nodes : PushStart(n) /\ UNCHANGED eng
  \/ \E n \in Nodes : PushDelete(n) /\ UNCHANGED eng
  \/ \E n \in Nodes : Pull(n) /\ UNCHANGED eng
  \/ \E n \in Nodes, w \in Nodes : Replicate(n, w)

SpecSync == InitPush /\ [][NextSync]_vars

\* two admitted writers, each with a file of its own that no engine has synced:
\* the joiner created the first path, the bootstrap peer the second
InitBidi ==
  /\ log = [w \in Nodes |->
              IF w = Boot THEN <<[op |-> AddWriterOp(1), clock |-> [u \in Nodes |-> 0]]>>
              ELSE <<>>]
  /\ have = [n \in Nodes |-> [w \in Nodes |-> IF w = Boot THEN 1 ELSE 0]]
  /\ applied = [n \in Nodes |-> <<(<<Boot, 1>>)>>]
  /\ view = [n \in Nodes |-> EmptyView]
  /\ writers = [n \in Nodes |-> {1, Boot}]
  /\ activeWriters = [n \in Nodes |-> {1, Boot}]
  /\ conn = {{1, Boot}}
  /\ msgs = {}
  /\ receivedKeys = [n \in Nodes |-> [m \in Nodes |-> IF m # n THEN {m} ELSE {}]]
  /\ \E va \in SyncVersions, vb \in SyncVersions :
       disk = [n \in Nodes |-> [p \in Paths |->
                 IF n = 1 /\ p = PathOrder[1] THEN va
                 ELSE IF n = Boot /\ p = PathOrder[2] THEN vb
                 ELSE Absent]]
  /\ pushPc = [n \in Nodes |-> "idle"]
  /\ delq = [n \in Nodes |-> <<>>]
  /\ edits = 0
  /\ cycle = [n \in Nodes |-> <<>>]
  /\ running = [n \in Nodes |-> 0]
  /\ waiting = [n \in Nodes |-> FALSE]
  /\ reqs = [n \in Nodes |-> 0]
  /\ started = [n \in Nodes |-> 0]
  /\ eng = [n \in Nodes |-> EngInit]
  /\ dmn = DmnInit
  /\ bee = BeeInit

\* the pushes and pulls of the two engines, in any order, and replication
NextBidi ==
  \/ \E n \in Nodes : PushStart(n) /\ UNCHANGED eng
  \/ \E n \in Nodes : PushDelete(n) /\ UNCHANGED eng
  \/ \E n \in Nodes : Pull(n) /\ UNCHANGED eng
  \/ \E n \in Nodes, w \in Nodes : Replicate(n, w)

SpecBidi == InitBidi /\ [][NextBidi]_vars

\* two Workspaces whose users edit one file and whose debounced sync runs
\* _fullSync cycles
NextCycle ==
  \/ \E n \in Nodes, p \in EditPaths : SaveFile(n, p)
  \/ \E n \in Nodes, p \in EditPaths : UnlinkFile(n, p)
  \/ \E n \in Nodes : FullSyncPull(n)
  \/ \E n \in Nodes : FullSyncPush(n)
  \/ \E n \in Nodes, w \in Nodes : Replicate(n, w)
  \/ \E n \in Nodes : Update(n)

SpecCycle == InitPush /\ [][NextCycle]_vars

\* the push requests of the watchers of two engines through the debounced
\* entry point
NextDebounce ==
  \/ \E n \in Nodes : Debounced(n)
  \/ \E n \in Nodes : WorkerDone(n)

SpecDebounce == Init /\ [][NextDebounce]_vars

\* the engines of the bootstrap peer and of a peer that is not admitted, with
\* files that cannot be read or written, and what the engines emit
NextFaults ==
  \/ \E n \in Nodes, p \in Synced : SaveFile(n, p)
  \/ \E n \in Nodes, p \in Synced : LockFile(n, p)
  \/ \E n \in Nodes : PushStart(n) /\ PushEmits(n)
  \/ \E n \in Nodes : PushDelete(n) /\ PushDeleteEmits(n)
  \/ \E n \in Nodes : Pull(n) /\ PullEmits(n)
  \/ \E n \in Nodes, w \in Nodes : Replicate(n, w)

SpecFaults == Init /\ [][NextFaults]_vars

\* writer admission with the joiner's poll for its writer status
NextPoll ==
  \/ \E n \in Nodes, m \in Nodes : Connect(n, m)
  \/ \E n \in Nodes, m \in Nodes : OnWriterKey(n, m)
  \/ \E n \in Nodes, w \in Nodes : ReplicateOver(n, w)
  \/ \E n \in Nodes : PollStart(n)
  \/ \E n \in Nodes : PollAttempt(n)

SpecPoll == Init /\ [][NextPoll]_vars

\* two engines that watch, push and pull, and are closed
NextClose ==
  \/ \E n \in Nodes, p \in EditPaths : SaveFile(n, p)
  \/ \E n \in Nodes : Open(n) /\ PushStart(n) /\ PushEmits(n)
  \/ \E n \in Nodes : PushDelete(n) /\ PushDeleteEmits(n)
  \/ \E n \in Nodes : Open(n) /\ Pull(n) /\ PullEmits(n)
  \/ \E n \in Nodes : TimerSync(n)
  \/ \E n \in Nodes, w \in Nodes : ReplicateOver(n, w)
  \/ \E n \in Nodes : CloseStart(n)
  \/ \E n \in Nodes : CloseLeft(n)
  \/ \E n \in Nodes : CloseBase(n)
  \/ \E n \in Nodes : CloseStore(n)

SpecClose == InitPush /\ [][NextClose]_vars

\* a data event with one request line, as DaemonClient.send writes it
RequestChunks == {<<r, Nl>> : r \in Requests}

\* the daemon and the commands of its clients
NextDaemon ==
  \/ Start
  \/ \E c \in RequestChunks : Data(c)
  \/ \E k \in 1..MaxLines : Handle(k)
  \/ \E b \in BOOLEAN : Stop(b)
  \/ \E k \in 1..MaxStops + MaxLines : StopStep(k)

SpecDaemon == Init /\ [][NextDaemon]_vars

\* the bytes of the clients of the byte-stream specification, and the chunks
\* the stream may arrive in
IpcBytes == {"S", "Wd", "Nd", Sp, Nl}
IpcChunks == {<<a>> : a \in IpcBytes} \cup {<<a, b>> : a \in IpcBytes, b \in IpcBytes}

\* the daemon and one connection whose byte stream arrives in any chunks
NextIpc ==
  \/ Start
  \/ \E c \in IpcChunks : Data(c)
  \/ \E k \in 1..MaxLines : Handle(k)

SpecIpc == Init /\ [][NextIpc]_vars

\* the same engines with an ignored name in the directories and in the View
NextIgnore ==
  \/ \E n \in Nodes, p \in EditPaths \cup Ignored : SaveFile(n, p)
  \/ \E n \in Nodes, p \in EditPaths \cup Ignored : UnlinkFile(n, p)
  \/ \E n \in Nodes : PushStart(n) /\ UNCHANGED eng
  \/ \E n \in Nodes : PushDelete(n) /\ UNCHANGED eng
  \/ \E n \in Nodes : Pull(n) /\ UNCHANGED eng
  \/ \E n \in Nodes, w \in Nodes : Replicate(n, w)
  \/ \E n \in Nodes : AppendIgnored(n)

SpecIgnore == InitPush /\ [][NextIgnore]_vars

\* the exchange channel as the receiver sees it: any key may arrive, any number
\* of times, on an open connection
NextKeys ==
  \/ \E n \in Nodes, m \in Nodes : Connect(n, m)
  \/ \E n \in Nodes, m \in Nodes : Disconnect(n, m)
  \/ \E n \in Nodes, m \in Nodes, k \in Nodes : ReceiveKey(n, m, k)
  \/ \E n \in Nodes, w \in Nodes : ReplicateOver(n, w)

SpecKeys == Init /\ [][NextKeys]_vars

\* the apply function alone, on batches of any blocks
NextApply == \E batch \in Batches(MaxBatch) \ {<<>>} : ApplyStep(batch)

SpecApply == Init /\ [][NextApply]_vars

\* two engines from their construction on, each with or without an ignore file
InitLoad ==
  /\ log = [w \in Nodes |-> <<>>]
  /\ have = [n \in Nodes |-> [w \in Nodes |-> 0]]
  /\ applied = [n \in Nodes |-> <<>>]
  /\ view = [n \in Nodes |-> EmptyView]
  /\ writers = [n \in Nodes |-> {Boot}]
  /\ activeWriters = [n \in Nodes |-> {Boot}]
  /\ conn = {}
  /\ msgs = {}
  /\ receivedKeys = [n \in Nodes |-> [m \in Nodes |-> {}]]
  /\ disk = [n \in Nodes |-> [p \in Paths |-> Absent]]
  /\ pushPc = [n \in Nodes |-> "idle"]
  /\ delq = [n \in Nodes |-> <<>>]
  /\ edits = 0
  /\ cycle = [n \in Nodes |-> <<>>]
  /\ running = [n \in Nodes |-> 0]
  /\ waiting = [n \in Nodes |-> FALSE]
  /\ reqs = [n \in Nodes |-> 0]
  /\ started = [n \in Nodes |-> 0]
  /\ eng \in [Nodes -> {Constructed(f) : f \in IgnoreFiles}]
  /\ dmn = DmnInit
  /\ bee = BeeInit

NextLoad ==
  \/ \E n \in Nodes : loadIgnoreFile(n)
  \/ \E n \in Nodes : init(n)
  \/ \E n \in Nodes : consult(n)

SpecLoad == InitLoad /\ [][NextLoad]_vars

\* ------------------------------------------------------------------ claims
AppliedSet(n) == {applied[n][i] : i \in 1..Len(applied[n])}
OpAt(n, i) == log[applied[n][i][1]][applied[n][i][2]].op
AuthorAt(n, i) == applied[n][i][1]
UpToDate(n) == applied[n] = Linearize(log, have[n])
Max(S) == CHOOSE x \in S : \A y \in S : y <= x

\* C1 (Determinism): two peers whose linearizers have consumed the same set of
\* blocks hold equal Views, whatever the order in which the blocks arrived and
\* however they were grouped into apply batches; in particular two peers that
\* hold the same prefixes of all logs and have both run update agree.
C1_Determinism ==
  \A p \in Nodes, q \in Nodes :
    /\ AppliedSet(p) = AppliedSet(q) => view[p] = view[q]
    /\ (have[p] = have[q] /\ UpToDate(p) /\ UpToDate(q)) => view[p] = view[q]

\* both peers applied the same three blocks, among them a put of each writer on
\* the same path, the two puts concurrent
C1_Witness ==
  /\ AppliedSet(1) = AppliedSet(2)
  /\ \E i \in 1..Len(applied[1]), j \in 1..Len(applied[1]) :
       /\ OpAt(1, i).type = "put" /\ OpAt(1, j).type = "put"
       /\ OpAt(1, i).key = OpAt(1, j).key
       /\ AuthorAt(1, i) = 1 /\ AuthorAt(1, j) = 2
       /\ log[1][applied[1][i][2]].clock[2] < applied[1][j][2]
       /\ log[2][applied[1][j][2]].clock[1] < applied[1][i][2]

\* C2 (the View is the last-writer-wins fold): at every node and for every path,
\* the View holds the value of the last linearized put on the path when no del
\* of the path follows it, and holds nothing when the last operation on the path
\* is a del or when no put of the path was linearized.
C2_ViewIsFold ==
  \A n \in Nodes, p \in Paths :
    LET on == {i \in 1..Len(applied[n]) :
                 OpAt(n, i).type \in {"put", "del"} /\ OpAt(n, i).key = p}
    IN IF on = {} THEN view[n][p] = Absent
       ELSE IF OpAt(n, Max(on)).type = "del" THEN view[n][p] = Absent
       ELSE view[n][p] = OpAt(n, Max(on)).value

\* a node applied put, put (another value), and holds the second value; another
\* node applied a put followed by a del
C2_Witness ==
  /\ \E n \in Nodes : \E i \in 1..Len(applied[n]), j \in 1..Len(applied[n]) :
       /\ i < j /\ j = Len(applied[n])
       /\ OpAt(n, i).type = "put" /\ OpAt(n, j).type = "put"
       /\ OpAt(n, i).key = OpAt(n, j).key /\ OpAt(n, i).value # OpAt(n, j).value
       /\ view[n][OpAt(n, j).key] = OpAt(n, j).value
  /\ \E n \in Nodes : \E i \in 1..Len(applied[n]), j \in 1..Len(applied[n]) :
       /\ i < j /\ OpAt(n, i).type = "put" /\ OpAt(n, j).type = "del"
       /\ OpAt(n, i).key = OpAt(n, j).key /\ view[n][OpAt(n, j).key] = Absent

SelfRemoveAt(n, i, k) == OpAt(n, i) = RemoveWriterOp(k) /\ AuthorAt(n, i) = k

\* an add-writer{n} was applied at node n and no self-removal of n follows it
Admitted(n) ==
  \E i \in 1..Len(applied[n]) :
    /\ OpAt(n, i) = AddWriterOp(n)
    /\ \A j \in (i + 1)..Len(applied[n]) : ~SelfRemoveAt(n, j, n)

\* C3 (joiner-side writable): a non-bootstrap node is writable only if its own
\* linearizer applied an add-writer op naming its key that no self-removal
\* follows; a node that applied nothing yet is writable iff it is the creator.
C3_WritableOnlyIfAdmitted ==
  \A n \in Nodes :
    /\ (n # Boot /\ writable(n)) => Admitted(n)
    /\ applied[n] = <<>> => (writable(n) <=> n = Boot)

\* the joiner replicated and applied the add-writer op naming it, and is
\* writable
C3_Witness ==
  /\ writable(1) /\ Admitted(1)
  /\ \E i \in 1..Len(applied[1]) : OpAt(1, i) = AddWriterOp(1) /\ AuthorAt(1, i) = Boot

\* peer a processed the writer key of j on their open connection
Delivered(j, a) == {j, a} \in conn /\ j \in receivedKeys[a][j]

\* C4 (Admission liveness): whenever the writer key of a joiner J has been
\* delivered to a writable peer A on an open connection, J is eventually
\* writable (under fair delivery, replication of A's log and repeated update).
C4_AdmissionLiveness ==
  \A j \in Nodes, a \in Nodes :
    (j # a /\ Delivered(j, a) /\ writable(a)) ~> writable(j)

\* the joiner's key was delivered to the bootstrap peer, and the joiner applied
\* the add-writer op of the bootstrap peer and is writable
C4_Witness ==
  /\ 1 \in receivedKeys[Boot][1]
  /\ \E i \in 1..Len(applied[1]) : OpAt(1, i) = AddWriterOp(1) /\ AuthorAt(1, i) = Boot
  /\ writable(1)

\* the fold state after the first j linearized blocks of node n
StateAt(n, j) == FoldOps(InitState({Boot}), Nodes_(log, SubSeq(applied[n], 1, j)))

\* C5 (Monotone membership): once add-writer{K} is linearized at position t, K is
\* in the Writer Set at every position j >= t up to the next remove-writer{K}
\* authored by K; the node's Writer Set is the one of its last position.
C5_MonotoneMembership ==
  \A n \in Nodes :
    /\ writers[n] = StateAt(n, Len(applied[n])).writers
    /\ \A k \in Nodes : \A t \in 1..Len(applied[n]), j \in 1..Len(applied[n]) :
         (/\ t <= j
          /\ OpAt(n, t) = AddWriterOp(k)
          /\ \A i \in (t + 1)..j : ~SelfRemoveAt(n, i, k))
         => k \in StateAt(n, j).writers

\* add-writer{1}, then a remove-writer{1} authored by the bootstrap writer, and
\* writer 1 is still in the Writer Set
C5_Witness ==
  \E n \in Nodes : \E t \in 1..Len(applied[n]), j \in 1..Len(applied[n]) :
    /\ t < j /\ OpAt(n, t) = AddWriterOp(1)
    /\ OpAt(n, j) = RemoveWriterOp(1) /\ AuthorAt(n, j) = 2
    /\ 1 \in writers[n] /\ j = Len(applied[n])

\* C6 (self-removal only): applying remove-writer{K} authored by another writer
\* leaves the Writer Set (and the active writers) as they were; applying
\* remove-writer{K} authored by K removes K and nothing else.
C6_SelfRemovalOnly ==
  \A n \in Nodes : \A i \in 1..Len(applied[n]) :
    OpAt(n, i).type = "remove-writer" =>
      LET k == OpAt(n, i).writerKey
          before == StateAt(n, i - 1)
          after == StateAt(n, i)
      IN IF AuthorAt(n, i) = k
           THEN after.writers = before.writers \ {k} /\ after.aw = before.aw \ {k}
           ELSE after.writers = before.writers /\ after.aw = before.aw

\* a node applied a remove-writer{1} authored by writer 2 while 1 was a writer,
\* and later a remove-writer{1} authored by 1
C6_Witness ==
  \E n \in Nodes : \E i \in 1..Len(applied[n]), j \in 1..Len(applied[n]) :
    /\ i < j
    /\ OpAt(n, i) = RemoveWriterOp(1) /\ AuthorAt(n, i) = 2
    /\ 1 \in StateAt(n, i - 1).writers
    /\ OpAt(n, j) = RemoveWriterOp(1) /\ AuthorAt(n, j) = 1
    /\ 1 \notin writers[n]

\* an add-writer{k} block is among the blocks node n applied in this step
AppliesAdd(n, k) ==
  \E i \in 1..Len(applied'[n]) :
    /\ applied'[n][i] \notin AppliedSet(n) \/ ~IsPrefix(applied[n], applied'[n])
    /\ log'[applied'[n][i][1]][applied'[n][i][2]].op = AddWriterOp(k)

\* C7 (the Writer Set grows only through linearized add-writer ops): in every
\* step, a key that enters the Writer Set or the active writers of a node does
\* so because the node applied an add-writer op naming it.
C7_GrowsOnlyByAddWriterOp ==
  [][\A n \in Nodes, k \in Nodes :
       (\/ k \in writers'[n] \ writers[n]
        \/ k \in activeWriters'[n] \ activeWriters[n]) => AppliesAdd(n, k)]_vars

BootSelfRemovedAt(n) ==
  \E i \in 1..Len(applied'[n]) :
    /\ log'[applied'[n][i][1]][applied'[n][i][2]].op = RemoveWriterOp(Boot)
    /\ applied'[n][i][1] = Boot

AppendsDel(n, p) ==
  \E i \in (Len(log[n]) + 1)..Len(log'[n]) : log'[n][i].op = DelOp(p)

\* C9 (no deletion of others' files): in every step in which a push of node n
\* appends del{p}, the View of n at that moment has an entry for p whose
\* writerKey is n, and the file p is absent from n's directory.
C9_NoDeletionOfOthersFiles ==
  [][\A n \in Nodes, p \in Paths :
       AppendsDel(n, p) =>
         /\ view[n][p] # Absent
         /\ view[n][p].writerKey = n
         /\ disk[n][p] = Absent]_vars

\* the second of two consecutive pushes of node n, in directory orders o1 and
\* o2, appends nothing
SecondPushAppendsNothing(n, o1, o2) ==
  \A w1 \in {syncToRemote(n, World(n), disk[n], o1)} :
    syncToRemote(n, w1, disk[n], o2).lg = w1.lg

\* C10 (local-push idempotence): for every directory state and every View state
\* of a writable engine with no push in flight, of two consecutive pushes with
\* nothing happening in between the second appends no put and no del.
C10_LocalPushIdempotence ==
  \A n \in Nodes :
    (pushPc[n] = "idle" /\ writable(n)) =>
      \A o1 \in Orders, o2 \in Orders : SecondPushAppendsNothing(n, o1, o2)

\* what holds of two consecutive pushes: the second appends nothing when the
\* View had applied every held block before the first
PushIdempotentWhenUpToDate ==
  \A n \in Nodes :
    (pushPc[n] = "idle" /\ writable(n) /\ UpToDate(n)) =>
      \A o1 \in Orders, o2 \in Orders : SecondPushAppendsNothing(n, o1, o2)

\* a put{p} block is among the blocks node n appended in this step
AppendsPut(n, p) ==
  \E i \in (Len(log[n]) + 1)..Len(log'[n]) :
    log'[n][i].op.type = "put" /\ log'[n][i].op.key = p

\* the View the put loop of a push of node n starts from: the View as it is when
\* the engine is writable, the updated View when it had to wait for writer status
ViewSeen(n) == IF writable(n) THEN view[n] ELSE Updated(NS(n), log, have[n], 0).view

\* a step of the push of node n that ran the put loop
PutLoopStep(n) ==
  /\ pushPc[n] = "idle" /\ edits' = edits /\ disk' = disk
  /\ PushStart(n) /\ n \in writers'[n]

\* a step that is a pull of node n
PullStep(n) ==
  /\ edits' = edits /\ log' = log /\ have' = have /\ pushPc' = pushPc
  /\ Pull(n)

C12_PullIffAtLeastTolerance ==
  [][\A n \in Nodes : PullStep(n) =>
       \A p \in Synced : view'[n][p] # Absent =>
         IF \/ disk[n][p] = Absent
            \/ view'[n][p].mtime >= disk[n][p].mtime + MtimeTolerance
           THEN disk'[n][p] = pullFile(view'[n][p])
           ELSE disk'[n][p] = disk[n][p]]_vars

\* C12 amended (pull writes an entry iff absent or more than 1000 ms later): a
\* pull of node n writes the non-ignored View entry of p to disk when p is
\* absent locally or the entry's mtime is more than 1000 ms later than the
\* local file's, and leaves the local file untouched otherwise, a difference of
\* exactly 1000 ms included.
C12_PullIffBeyondTolerance ==
  [][\A n \in Nodes : PullStep(n) =>
       \A p \in Synced : view'[n][p] # Absent =>
         IF \/ disk[n][p] = Absent
            \/ view'[n][p].mtime > disk[n][p].mtime + MtimeTolerance
           THEN disk'[n][p] = pullFile(view'[n][p])
           ELSE disk'[n][p] = disk[n][p]]_vars

\* node 1 pushed its file and now holds, pulled over it, the later version that
\* the other writer pushed
C12_Witness ==
  \E p \in Synced : \E i \in 1..Len(log[1]) :
    /\ log[1][i].op.type = "put" /\ log[1][i].op.key = p
    /\ view[1][p] # Absent /\ view[1][p].writerKey = 2
    /\ view[1][p].mtime > log[1][i].op.value.mtime + MtimeTolerance
    /\ disk[1][p] = pullFile(view[1][p])

\* the positions of writer a's log that hold a put or a del of path p
OpsOn(a, p) ==
  {i \in 1..Len(log[a]) : log[a][i].op.type \in {"put", "del"} /\ log[a][i].op.key = p}

\* writer a pushed path p: the last operation of a on p is a put
PushedBy(a, p) == OpsOn(a, p) # {} /\ log[a][Max(OpsOn(a, p))].op.type = "put"

\* the FileMeta of the last put of writer a on path p
LastPut(a, p) == log[a][Max(OpsOn(a, p))].op.value

Replicated == \A n \in Nodes, w \in Nodes : have[n][w] = Len(log[w])

\* node n is an admitted writer at rest: it applied what it holds, no push is in
\* flight, a push would append nothing and a pull would change no file
Quiescent(n) ==
  /\ writable(n) /\ pushPc[n] = "idle" /\ UpToDate(n)
  /\ \A o \in Orders : syncToRemote(n, World(n), disk[n], o).lg = log
  /\ syncToLocal(view[n], disk[n]) = disk[n]

\* the two writers put different contents under path p, neither put knowing the
\* other, and nobody deleted p
ConflictOn(p) ==
  /\ \E i \in 1..Len(log[1]), j \in 1..Len(log[2]) :
       /\ log[1][i].op.type = "put" /\ log[1][i].op.key = p
       /\ log[2][j].op.type = "put" /\ log[2][j].op.key = p
       /\ log[1][i].op.value.hash # log[2][j].op.value.hash
       /\ log[1][i].clock[2] < j /\ log[2][j].clock[1] < i
  /\ \A w \in Nodes : \A i \in 1..Len(log[w]) : log[w][i].op # DelOp(p)

\* C14 (concurrent same-path conflict): when the two admitted writers pushed
\* different contents under the same path concurrently, then in every state in
\* which all blocks are replicated and both peers are quiescent, the View of
\* both peers holds the same single FileMeta for the path and both disks hold a
\* file with the same content, the content of that FileMeta.
C14_ConflictConverges ==
  \A p \in Synced :
    (ConflictOn(p) /\ Replicated /\ \A n \in Nodes : Quiescent(n)) =>
      /\ view[1][p] = view[2][p] /\ view[1][p] # Absent
      /\ \A n \in Nodes :
           /\ disk[n][p] # Absent
           /\ disk[n][p].content = unbase64(view[n][p].content)
           /\ sha256(disk[n][p].content) = view[n][p].hash
      /\ disk[1][p].content = disk[2][p].content

\* both writers pushed conflicting contents of a path, everything is
\* replicated, both are quiescent, and the joiner's first content lost
C14_Witness ==
  \E p \in Synced :
    /\ ConflictOn(p) /\ Replicated /\ \A n \in Nodes : Quiescent(n)
    /\ \E i \in 1..Len(log[1]) :
         /\ log[1][i].op.type = "put" /\ log[1][i].op.key = p
         /\ log[1][i].op.value.hash # view[1][p].hash

\* C15 (bidirectional sync loses no file): the joiner created the first path
\* and the bootstrap peer the second before either synced; in every state in
\* which all blocks are replicated and both peers are quiescent, whatever the
\* order of the pushes and pulls before, both disks contain both files.
C15_NoFileLost ==
  (Replicated /\ \A n \in Nodes : Quiescent(n)) =>
    \A n \in Nodes : disk[n][PathOrder[1]] # Absent /\ disk[n][PathOrder[2]] # Absent

\* writer a pushed path p and later pushed its deletion: the last operation of
\* a on p is a del that follows a put of a
DeletedBy(a, p) ==
  /\ OpsOn(a, p) # {} /\ log[a][Max(OpsOn(a, p))].op.type = "del"
  /\ \E i \in OpsOn(a, p) : log[a][i].op.type = "put"

\* a step of the deletion loop of a push of node n on the entry of path p
DeleteLoopStep(n, p) ==
  /\ pushPc[n] = "deleting" /\ Head(delq[n]).key = p
  /\ edits' = edits /\ disk' = disk
  /\ PushDelete(n)

\* C16 (delete propagation): when A's push finds the file of a View entry A
\* authored deleted, it appends del{p} and p leaves A's View; and when B holds
\* the whole log of A, in which A's put of p is followed by A's del of p, and B
\* pushed nothing under p, a pull on B leaves p absent from B's disk and from
\* the View of both peers.
C16_DeletePropagates ==
  [][\A a \in Nodes, b \in Nodes : \A p \in Synced :
       /\ (/\ DeleteLoopStep(a, p)
           /\ Head(delq[a]).value.writerKey = a /\ disk[a][p] = Absent) =>
            AppendsDel(a, p) /\ view'[a][p] = Absent
       /\ (/\ a # b /\ PullStep(b) /\ have[b][a] = Len(log[a])
           /\ DeletedBy(a, p) /\ OpsOn(b, p) = {}) =>
            /\ disk'[b][p] = Absent
            /\ view'[b][p] = Absent /\ view'[a][p] = Absent]_vars

\* the joiner pushed a file and then its deletion; the bootstrap peer applied
\* both, pushed nothing itself, and has neither an entry nor a file left
C16_Witness ==
  \E p \in Synced :
    /\ DeletedBy(1, p) /\ OpsOn(Boot, p) = {}
    /\ have[Boot][1] = Len(log[1]) /\ Len(applied[Boot]) = Len(log[1]) + Len(log[Boot])
    /\ view[Boot][p] = Absent /\ view[1][p] = Absent
    /\ disk[Boot][p] = Absent /\ disk[1][p] = Absent

\* a step of a push of node n: the put loop or an iteration of the deletion loop
PushStep(n) ==
  /\ edits' = edits /\ disk' = disk
  /\ PushStart(n) \/ PushDelete(n)

C18_PushBeforePull ==
  [][\A n \in Nodes :
       cycle'[n] = Append(cycle[n], "pull") => cycle[n] = <<"push">>]_vars

\* C19 (push debounce): at most one push of a node is in flight at any time; a
\* request that arrives while a push is in flight starts no push; and when the
\* push in flight finishes, exactly one follow-up push starts if one or more
\* requests arrived during it, and none otherwise.
C19_PushDebounce ==
  /\ [](\A n \in Nodes : running[n] <= 1)
  /\ [][\A n \in Nodes :
         /\ (running[n] >= 1 /\ reqs'[n] = reqs[n] + 1) =>
              started'[n] = started[n] /\ running'[n] = running[n]
         /\ WorkerDone(n) =>
              IF reqs[n] >= 1
                THEN started'[n] = started[n] + 1 /\ running'[n] = 1
                ELSE started'[n] = started[n] /\ running'[n] = 0]_vars

\* a follow-up push of node 1 is in flight, started when the push during which
\* several requests arrived finished, and again several requests have arrived
C19_Witness ==
  /\ running[1] = 1 /\ waiting[1] /\ reqs[1] >= 2 /\ started[1] >= 2

\* C20 (empty View): a pull of the joiner that finds the View empty, as its
\* first pull in an empty workspace does, writes no file and deletes no file:
\* the joiner's directory is after the pull what it was before, whatever it held.
C20_EmptyViewPullNoOp ==
  [][\A n \in Nodes \ {Boot} :
       (view[n] = EmptyView /\ PullStep(n) /\ view'[n] = EmptyView) =>
         disk'[n] = disk[n]]_vars

\* a syncToRemote step of node n that finds the engine no writer after its wait
NotWriterPush(n) ==
  /\ pushPc[n] = "idle" /\ edits' = edits /\ disk' = disk /\ n \notin writers'[n]
  /\ PushStart(n) /\ PushEmits(n)

NotWriterError == <<"error", "sync", "Not a writer - cannot push changes">>

WriterPush(n) ==
  /\ pushPc[n] = "idle" /\ edits' = edits /\ disk' = disk /\ n \in writers'[n]
  /\ PushStart(n) /\ PushEmits(n)

PullOf(n) ==
  /\ edits' = edits /\ log' = log /\ have' = have /\ pushPc' = pushPc
  /\ Pull(n) /\ PullEmits(n)

\* C22 (per-file isolation): when the push or the pull of one file fails, an
\* error event that names the path is emitted and every other file of the same
\* push or pull is still processed: after the put loop no readable file of the
\* directory needs a push, after the pull loop every writable file that needed
\* the pull has the content and the mtime of its entry; and an engine that is
\* idle after a sync that started has emitted sync-complete.
C22_PerFileIsolation ==
  /\ [](\A n \in Nodes :
          (pushPc[n] = "idle" /\ <<"sync-start">> \in eng[n].emitted) =>
            <<"sync-complete">> \in eng[n].emitted)
  /\ [][\A n \in Nodes :
         /\ WriterPush(n) =>
              \A p \in Synced :
                IF Locked(disk[n][p])
                  THEN /\ <<"error", "push", p>> \in eng'[n].emitted
                       /\ \A i \in Len(log[n]) + 1 .. Len(log'[n]) :
                            log'[n][i].op.key # p
                  ELSE /\ <<"error", "push", p>> \notin eng'[n].emitted
                       /\ disk[n][p] # Absent => ~needsSync(disk[n][p], view'[n][p])
         /\ PullOf(n) =>
              \A p \in Synced :
                view'[n][p] # Absent =>
                  IF needsPull(disk[n][p], view'[n][p])
                    THEN IF Locked(disk[n][p])
                           THEN /\ <<"error", "pull", p>> \in eng'[n].emitted
                                /\ disk'[n][p] = disk[n][p]
                           ELSE /\ <<"error", "pull", p>> \notin eng'[n].emitted
                                /\ disk'[n][p] = pullFile(view'[n][p])
                    ELSE disk'[n][p] = disk[n][p]]_vars

\* the bootstrap peer has pushed a directory with a file it could not read and
\* a file it could: the error names the first, the View has the second, and the
\* sync is complete
C22_Witness ==
  /\ \E p \in Synced, q \in Synced :
       /\ Locked(disk[Boot][p]) /\ <<"error", "push", p>> \in eng[Boot].emitted
       /\ view[Boot][p] = Absent
       /\ q # p /\ view[Boot][q] # Absent /\ view[Boot][q].writerKey = Boot
       /\ <<"sync-complete">> \in eng[Boot].emitted

\* an iteration of the poll of node n
PollStep(n) == eng[n].pollPc = "polling" /\ eng'[n].attempts = eng[n].attempts + 1

\* C23 (writer-status polling terminates): the poll of a joiner makes at most 30
\* update attempts; at the first attempt at which the node is writable it emits
\* writer-ready and returns true, and emits no timeout error; otherwise it goes
\* on, whether or not the update failed, until after the 30th attempt it emits
\* the writer-status error and returns false.
C23_PollTerminates ==
  /\ [](\A n \in Nodes :
          /\ eng[n].attempts <= maxAttempts
          /\ eng[n].pollPc = "polling" => eng[n].attempts < maxAttempts)
  /\ [][\A n \in Nodes :
         PollStep(n) =>
           IF n \in writers'[n]
             THEN /\ eng'[n].pollPc = "returned" /\ eng'[n].pollRet = "true"
                  /\ <<"writer-ready">> \in eng'[n].pollEmitted
                  /\ <<"error", "writer-status">> \notin eng'[n].pollEmitted
             ELSE IF eng'[n].attempts = maxAttempts
               THEN /\ eng'[n].pollPc = "returned" /\ eng'[n].pollRet = "false"
                    /\ <<"error", "writer-status">> \in eng'[n].pollEmitted
               ELSE eng'[n].pollPc = "polling"]_vars

\* C24 (close order): close() stops the watcher and the timers, leaves the
\* transport, awaits the sync work in flight and then closes the Log Set: when
\* the Log Set is closed the engine has no connection and no push in flight,
\* and from then on no push or pull of the engine runs: its log, the entries
\* its deletion loop has left and its pending delayed sync stay as they are
\* until the engine is not ready any more.
C24_CloseOrder ==
  /\ [](\A n \in Nodes :
          BaseClosed(n) => /\ \A m \in Nodes : {n, m} \notin conn
                           /\ pushPc[n] = "idle")
  /\ [][\A n \in Nodes :
         BaseClosed(n) =>
           /\ log'[n] = log[n] /\ delq'[n] = delq[n] /\ applied'[n] = applied[n]
           /\ eng[n].closePc # "closed" => eng'[n].timer = eng[n].timer]_vars

\* the lines the data handlers of daemon d are at, with the place of each
\* handler in _handleMessage and the engine it awaits
Cur(d) ==
  {[line |-> Head(d.hs[k].todo).line, text |-> Head(d.hs[k].todo).text,
    pc |-> d.hs[k].pc, eng |-> d.hs[k].eng] : k \in DOMAIN d.hs}

\* this step is the next step of the handler at c
Acts(c) == c \in Cur(dmn) /\ c \notin Cur(dmn')

\* this step writes response r as the next line of the connection
Writes(r) == dmn'.out = Append(dmn.out, r)

\* the request of a line, read off its text
RequestOf(text) ==
  IF Len(Trim(text)) = 1 /\ Trim(text)[1] \in Requests THEN Trim(text)[1] ELSE "X"

\* C25 (duplicate watch): a watch command for a path that is in the workspace
\* map when it is handled is answered with success and 'Already watching
\* workspace', creates no engine and leaves the map as it is.
C25_DuplicateWatch ==
  [][\A c \in Cur(dmn) :
       (Acts(c) /\ c.pc = "line" /\ RequestOf(c.text) = "Wd" /\ dmn.ws # 0) =>
         /\ Writes(Resp(c.line, "success", "Already watching workspace"))
         /\ dmn'.engs = dmn.engs
         /\ dmn'.ws = dmn.ws]_vars

\* two watch commands for the directory have been answered, the second with
\* 'Already watching workspace'; one engine exists and the map holds it
C25_Witness ==
  /\ Len(dmn.out) = 2 /\ dmn.hs = <<>>
  /\ dmn.out[1] = Resp(1, "success", "Workspace added successfully")
  /\ dmn.out[2] = Resp(2, "success", "Already watching workspace")
  /\ dmn.ws = 1 /\ dmn.engs = <<"ready">>

\* C26 (watch failure): a watch command whose path does not exist or is no
\* directory is answered with an error, adds nothing to the workspace map,
\* creates no engine, and leaves the daemon running with its server and its
\* other handlers as they were.
C26_WatchFailure ==
  [][\A c \in Cur(dmn) :
       (Acts(c) /\ RequestOf(c.text) \in {"Wf", "Wn"}) =>
         IF c.pc = "line"
           THEN /\ dmn' = [dmn EXCEPT !.hs = dmn'.hs]
                /\ [c EXCEPT !.pc = "stat"] \in Cur(dmn')
           ELSE /\ \E m \in {"Workspace must be a directory", "Failed to watch workspace"} :
                     Writes(Resp(c.line, "error", m))
                /\ dmn' = [dmn EXCEPT !.hs = dmn'.hs, !.out = dmn'.out]]_vars

\* a watch of a path that does not exist was answered with an error, and the
\* status command after it was answered by the running daemon
C26_Witness ==
  /\ Len(dmn.out) = 2
  /\ dmn.out[1] = Resp(1, "error", "Failed to watch workspace")
  /\ dmn.out[2] = Resp(2, "status", "")
  /\ dmn.running /\ dmn.ws = 0 /\ dmn.engs = <<>>

\* the complete lines of the byte stream received so far
LinesOf(d) == SubSeq(Split(d.stream, <<>>, <<>>), 1, Len(Split(d.stream, <<>>, <<>>)) - 1)

ResponsesTo(d, i) == Cardinality({j \in DOMAIN d.out : d.out[j].line = i})

\* C27 (IPC), as stated: every non-empty newline-terminated line received on
\* the connection gets exactly one response line, however the stream is split
\* into chunks: never more than one, and one when no handler is at work.
C27_OneResponsePerNonEmptyLine ==
  \A i \in DOMAIN LinesOf(dmn) :
    /\ ResponsesTo(dmn, i) <= 1
    /\ (dmn.hs = <<>> /\ LinesOf(dmn)[i] # <<>>) => ResponsesTo(dmn, i) = 1

\* C27 (IPC), amended: every newline-terminated line that is not blank (has
\* a character other than white space) gets exactly one response line, however
\* the stream is split into chunks; a blank line gets none.
C27_OneResponsePerLine ==
  \A i \in DOMAIN LinesOf(dmn) :
    /\ ResponsesTo(dmn, i) <= 1
    /\ dmn.hs = <<>> =>
         ResponsesTo(dmn, i) = IF Trim(LinesOf(dmn)[i]) # <<>> THEN 1 ELSE 0

\* a request line and a blank line have arrived and no handler is at work:
\* the request has its response, the blank line has none
C27_Witness ==
  /\ dmn.stream = <<"S", Nl, Sp, Nl>>
  /\ dmn.hs = <<>>
  /\ ResponsesTo(dmn, 1) = 1 /\ ResponsesTo(dmn, 2) = 0

\* C28 (bad requests): a request line that is no JSON, or whose command is
\* unknown, is answered with an error, and leaves the running flag, the
\* workspace map and the engines as they are.
C28_BadRequest ==
  [][\A c \in Cur(dmn) :
       (Acts(c) /\ RequestOf(c.text) \in {"X", "U"}) =>
         /\ \E m \in {"Invalid message", "Unknown command"} :
              Writes(Resp(c.line, "error", m))
         /\ dmn' = [dmn EXCEPT !.hs = dmn'.hs, !.out = dmn'.out]]_vars

\* a line that is no JSON and a line with an unknown command have both been
\* answered with errors while a workspace is watched
C28_Witness ==
  /\ \E i \in DOMAIN dmn.out, j \in DOMAIN dmn.out :
       /\ dmn.out[i].msg = "Invalid message" /\ dmn.out[i].kind = "error"
       /\ dmn.out[j].msg = "Unknown command" /\ dmn.out[j].kind = "error"
  /\ dmn.running

\* C29 (shutdown): when a stop() has completed, every engine the daemon
\* created has been closed (or its close() failed), the workspace map is
\* empty, running is false and the socket file is removed, also with watch
\* commands in flight while stop() runs and with several stop() calls.
C29_Shutdown ==
  (\E k \in DOMAIN dmn.stops : dmn.stops[k].pc = "done") =>
    /\ \A e \in DOMAIN dmn.engs : dmn.engs[e] \in {"closed", "closeFailed"}
    /\ dmn.ws = 0
    /\ ~dmn.running
    /\ ~dmn.socket

\* C30 (unwatch): an unwatch of a path that is not watched is answered with
\* the error 'Workspace not found' and changes nothing; an unwatch of a watched
\* path awaits the close of the engine of the path, and then either the engine
\* is closed, the path is out of the map and the answer is a success, or the
\* close failed, the map is as it was and the answer is an error.
C30_Unwatch ==
  [][\A c \in Cur(dmn) :
       (Acts(c) /\ RequestOf(c.text) \in {"Nd", "Nn"}) =>
         IF c.pc = "line"
           THEN IF RequestOf(c.text) = "Nd" /\ dmn.ws # 0
                  THEN /\ [c EXCEPT !.pc = "close", !.eng = dmn.ws] \in Cur(dmn')
                       /\ dmn' = [dmn EXCEPT !.hs = dmn'.hs]
                  ELSE /\ Writes(Resp(c.line, "error", "Workspace not found"))
                       /\ dmn' = [dmn EXCEPT !.hs = dmn'.hs, !.out = dmn'.out]
           ELSE \/ /\ Writes(Resp(c.line, "success", "Workspace removed successfully"))
                   /\ dmn'.engs[c.eng] = "closed"
                   /\ dmn'.ws = 0
                \/ /\ Writes(Resp(c.line, "error", "Failed to unwatch workspace"))
                   /\ dmn'.ws = dmn.ws
                   /\ dmn'.engs = [dmn.engs EXCEPT ![c.eng] = closed(@, FALSE)]]_vars

\* a watched directory was unwatched: its engine is closed and the map is
\* empty
C30_Witness ==
  /\ Len(dmn.out) = 2
  /\ dmn.out[1] = Resp(1, "success", "Workspace added successfully")
  /\ dmn.out[2] = Resp(2, "success", "Workspace removed successfully")
  /\ dmn.engs = <<"closed">> /\ dmn.ws = 0

\* C31: when a writer key k arrives at node n on its connection with m, n
\* appends one add-writer{k} block to its own log if and only if k is not n's
\* own key, n is writable at that moment and k was not received on this
\* connection before; otherwise no log changes; no log of a node ever holds an
\* add-writer for that node's own key
C31_WriterExchangeRule ==
  [][\A n \in Nodes, m \in Nodes, k \in Nodes :
       ReceiveKey(n, m, k) =>
         /\ \A w \in Nodes \ {n} : log'[w] = log[w]
         /\ IF k # n /\ writable(n) /\ k \notin receivedKeys[n][m]
              THEN /\ Len(log'[n]) = Len(log[n]) + 1
                   /\ SubSeq(log'[n], 1, Len(log[n])) = log[n]
                   /\ log'[n][Len(log'[n])].op = AddWriterOp(k)
              ELSE log'[n] = log[n]
         /\ \A w \in Nodes : \A i \in 1..Len(log'[w]) : log'[w][i].op # AddWriterOp(w)]_vars

\* the bootstrap node received the joiner's key and its own key on one
\* connection and appended one add-writer, for the joiner; the joiner, not
\* writable, received the bootstrap key and appended nothing
C31_Witness ==
  \E n \in Nodes \ {Boot} :
    /\ {Boot, n} \in conn
    /\ receivedKeys[Boot][n] = {Boot, n}
    /\ Boot \in receivedKeys[n][Boot]
    /\ ~writable(n)
    /\ Len(log[Boot]) = 1 /\ log[Boot][1].op = AddWriterOp(n)
    /\ log[n] = <<>>

\* the blocks of a batch that hold a put or a del on path p
WritesOn(b, p) ==
  {i \in 1..Len(b) : b[i].value.type \in {"put", "del"} /\ b[i].value.key = p}

\* the value of path p after the ops of batch b were applied one after another
\* to a View that held v
AfterBatch(b, p, v) ==
  IF WritesOn(b, p) = {} THEN v
  ELSE IF b[Max(WritesOn(b, p))].value.type = "del" THEN Absent
  ELSE b[Max(WritesOn(b, p))].value.value

Mutating(b) ==
  {i \in 1..Len(b) :
     \/ b[i].value.type \in {"put", "del"}
     \/ b[i].value.type = "add-writer" /\ ~hexThrows(b[i].value)
     \/ b[i].value.type = "remove-writer" /\ b[i].writer = b[i].value.writerKey}

WellFormed(b) ==
  \A i \in 1..Len(b) : b[i].value \notin {NullOp, UnknownOp, AddWriterNoKey}

\* C33: an applied batch of well-formed ops advances the length of the View by
\* the number of its puts, dels and applied membership ops
C33_LengthPerOp ==
  [][(bee' # bee /\ WellFormed(bee'.batch)) =>
       bee'.length = bee.length + Cardinality(Mutating(bee'.batch))]_vars

\* the View and the Writer Set that the well-formed ops of batch b leave
RECURSIVE WellFormedFold(_, _)
WellFormedFold(st, b) ==
  IF b = <<>> THEN st
  ELSE IF ~WellFormed(<<Head(b)>>) THEN WellFormedFold(st, Tail(b))
  ELSE WellFormedFold(
         [view |-> [p \in Paths |-> AfterBatch(<<Head(b)>>, p, st.view[p])],
          writers |-> IF Head(b).value.type = "add-writer"
                        THEN st.writers \cup {Head(b).value.writerKey}
                      ELSE IF /\ Head(b).value.type = "remove-writer"
                              /\ Head(b).writer = Head(b).value.writerKey
                        THEN st.writers \ {Head(b).value.writerKey}
                      ELSE st.writers],
         Tail(b))

\* C34: a batch that holds a malformed op (a null value, an unknown type, an
\* add-writer without a writer key) does not fail, and leaves the View and the
\* Writer Set that its well-formed ops alone leave
C34_MalformedIgnored ==
  [][(bee' # bee /\ ~WellFormed(bee'.batch)) =>
       /\ ~bee'.failed
       /\ LET r == WellFormedFold([view |-> bee.view, writers |-> bee.writers], bee'.batch)
          IN bee'.view = r.view /\ bee'.writers = r.writers]_vars

\* C35: a call removeWriter(k) at node n takes k out of n's active writers if
\* and only if k is n's own writer key (and is active); a call with any other
\* key leaves the active writers as they were
C35_RemoveWriterOnlySelf ==
  [][\A n \in Nodes, k \in Nodes :
       removeWriter(n, k) =>
         /\ (k \in activeWriters[n] /\ k \notin activeWriters'[n]) <=>
              (k = n /\ k \in activeWriters[n])
         /\ activeWriters'[n] \in {activeWriters[n], activeWriters[n] \ {n}}
         /\ k # n => activeWriters' = activeWriters]_vars

\* with no block in any log, the bootstrap node holds the key of the other
\* node, added by addWriter, and no longer its own, taken out by removeWriter
C35_Witness ==
  /\ \A w \in Nodes : log[w] = <<>>
  /\ activeWriters[Boot] = Nodes \ {Boot}
  /\ \E n \in Nodes \ {Boot} : activeWriters[n] = {Boot, n}

\* C36: once init() has returned, the load of .pearsyncignore has completed and
\* the ignore-pattern list never changes: every push and pull of an engine
\* consults one and the same list
C36_IgnoreListFixed ==
  /\ \A n \in Nodes : eng[n].ready => eng[n].loadPc = "done"
  /\ \A n \in Nodes : Cardinality(eng[n].used) <= 1

\* C37: whatever the interleaving of the watch commands in flight, every engine
\* of the daemon that was made ready and was not closed is the engine the
\* workspace map records for its path, so that a path has at most one open
\* engine
C37_OneEnginePerPath ==
  \A i \in 1..Len(dmn.engs) : dmn.engs[i] = "ready" => dmn.ws = i
====
